---------------------------- MODULE Spec2Model ----------------------------
(***************************************************************************)
(* The subscription / notification engine of the Discord bot:              *)
(*   - the WebSub push handler  app.post('/youtube-webhook')               *)
(*   - the 'sub' command that creates a video subscription                 *)
(*   - the Twitch stream sweep  checkForLiveStreams  (bulk variant, and    *)
(*     the per-subscription variant of server/index.ts)                    *)
(* Every `await` of the source is a suspension point: a handler is cut     *)
(* into one action per stretch of code that runs without suspending.       *)
(*                                                                         *)
(* Encodings: a video id and a stream session id are naturals, 0 is the    *)
(* empty string ''.  Publish ages are minutes before Date.now().           *)
(***************************************************************************)
EXTENDS Integers, Sequences, FiniteSets, Bags, TLC

VARIABLES
    subscriptions,        \* let subscriptions = []      (video records, store order)
    twitchSubscriptions,  \* let twitchSubscriptions = []
    twitchOAuthToken,     \* let twitchOAuthToken = null
    twitchDeviceCode,     \* let twitchDeviceCode (server/index.ts; 0 = null)
    subsFile,             \* contents of subscriptions.json
    twitchSubsFile,       \* contents of twitch_subscriptions.json
    tokenFile,            \* contents of twitch_token.json
    webhook,              \* in-flight POST /youtube-webhook handlers
    sweep,                \* in-flight checkForLiveStreams runs
    published,            \* upstream: videos 1..published exist on the channel
    upstream,             \* upstream: live session id per Twitch user (0 = offline)
    period,               \* upstream: number of live periods started per user
    now,                  \* Date.now(), in units of the 60 s skew
    nextOid,              \* identity of the next record object created
    sent,                 \* observer: bag of the video messages delivered
    ledgerLog,            \* observer: per record, every id appended to its history
    scenario,             \* observer: progress of the subscribe / push / push scenario
    feedRun,              \* observer: the current run of feeds of one id to one record
    twitchSent,           \* observer: bag of the notifyTwitchLive invocations
    streamObs,            \* observer: per stream record, its last sweep visits
    staleClear,           \* observer: a slot was cleared on an outdated query result
    twitchDeviceAuthUrl,  \* let twitchDeviceAuthUrl (server/index.ts; 0 = null)
    grant,                \* upstream: state of each device code issued
    sweepTimer,           \* server: setInterval(checkForLiveStreams) is registered
    ready,                \* server: the clientReady handler has run
    tokenCall,            \* in-flight getTwitchAccessToken calls of other callers
    tokenLog,             \* observer: the getTwitchAccessToken calls that returned
    pollObs,              \* observer: what pollTwitchDeviceAuth returned, per answer
    exchangeFailed,       \* observer: a sweep's token exchange has failed
    lastCmd,              \* observer: the last subscribe / unsubscribe command
    vsweep,               \* in-flight checkForNewVideos runs (polling variant)
    pollDone,             \* observer: what the last finished video sweep did
    early,                \* observer: why the latest run or handler returned early
    response,             \* observer: the last response of the /youtube-webhook routes
    hub,                  \* upstream: the WebSub hub (leases, requests in flight)
    renewAt,              \* time the 4-day renewal interval fires next (0 = not set)
    diskFault,            \* environment: which writeFileSync of saveData fails, and how
    loadObs,              \* observer: what loadData did with each data file
    data,                 \* FileStorage: private data (server/storage.ts)
    dataFile,             \* contents of data.json
    request,              \* the calls of the FileStorage methods, in call order
    counted               \* observer: per key, the increments since its last reset

vars == <<subscriptions, twitchSubscriptions, twitchOAuthToken, twitchDeviceCode,
          subsFile, twitchSubsFile, tokenFile, webhook, sweep, published,
          upstream, period, now, nextOid, sent, ledgerLog, scenario, feedRun,
          twitchSent, streamObs, staleClear, twitchDeviceAuthUrl, grant,
          sweepTimer, ready, tokenCall, tokenLog, pollObs, exchangeFailed, lastCmd,
          vsweep, pollDone, early, response, hub, renewAt, diskFault, loadObs,
          data, dataFile, request, counted>>

\* what the video side never touches, and what the stream side never touches
streamSide == <<twitchSubscriptions, sweep, upstream, period, twitchSent,
                streamObs, staleClear>>
videoSide == <<subscriptions, webhook, published, nextOid, sent, ledgerLog,
               scenario, feedRun>>
callSide == <<twitchDeviceAuthUrl, grant, sweepTimer, ready, tokenCall, tokenLog,
              pollObs>>
storeSide == <<lastCmd>>
pollSide == <<vsweep, pollDone>>
exitSide == <<early>>
webSide == <<response>>
leaseSide == <<hub, renewAt>>
counterSide == <<data, dataFile, request, counted>>
diskSide == <<diskFault, loadObs, counterSide>>
authSide == <<callSide, exchangeFailed, storeSide, pollSide, exitSide, webSide,
              leaseSide, diskSide>>
tokenSide == <<twitchOAuthToken, twitchDeviceCode, now, authSide>>
tokenCore == <<twitchOAuthToken, twitchDeviceCode, now, callSide, exchangeFailed,
               storeSide, pollSide, leaseSide, diskSide>>
files == <<subsFile, twitchSubsFile, tokenFile>>

---------------------------------------------------------------------------
(* Bounds of the model *)

MaxVideos == 2        \* videos published upstream
MaxRequests == 3      \* calls of the counter store over a run
HistVideos == 12      \* videos published upstream in the history model
MaxSent == 13         \* video messages delivered in the history model
MaxHandlers == 2      \* POST handlers in flight at once
MaxSubs == 2          \* video records created over a run
MaxTwitchSubs == 2    \* stream records loaded at startup
MaxRuns == 2          \* checkForLiveStreams runs in flight at once
MaxPeriods == 2       \* live periods a Twitch user starts
OverlapPeriods == 1   \* live periods a user starts while sweeps overlap
MaxSessions == 2      \* distinct stream session ids
MaxCalls == 3         \* getTwitchAccessToken calls observed
MaxNow == 4           \* clock ticks
MaxSweeps == 3        \* checkForNewVideos runs started
MaxDays == 9          \* days the lease model runs for
MaxFaults == 1        \* times the disk starts to fail
MaxPollSubs == 3      \* records of the polling variant that may share a playlist
CacheSweeps == 2      \* checkForNewVideos runs started in the cache model

(* Program constants *)

HistoryLimit == 10    \* if (sub.postedVideos.length > 10) shift()
DayMinutes == 1440    \* 24 * 60 * 60 * 1000 ms
Skew == 1             \* Date.now() + 60000, in units of 60 s

Channels == {"C1"}
Topics == {"C1", "C2"}     \* the channels the hub can be asked about
Dests == {"D1"}
Oids == 1..MaxSubs
Users == {"U1", "U2"}
TwitchOids == 1..MaxTwitchSubs

---------------------------------------------------------------------------
(* Helpers on sequences *)

Range(s) == {s[i] : i \in DOMAIN s}

Includes(s, x) == x \in Range(s)

\* Array.prototype.shift applied once the length exceeds the limit
ShiftOverEager(s) == IF Len(s) >= HistoryLimit THEN Tail(s) ELSE s
ShiftOverNewest(s) == IF Len(s) > HistoryLimit THEN SubSeq(s, 1, Len(s) - 1) ELSE s
ShiftOver(s) == IF Len(s) > HistoryLimit THEN Tail(s) ELSE s

\* the last n elements of s (all of s when it is shorter)
LastN(s, n) == IF Len(s) <= n THEN s ELSE SubSeq(s, Len(s) - n + 1, Len(s))

\* index of the first element satisfying a membership test, 0 when none
RECURSIVE FindFrom(_, _, _)
FindFrom(s, i, S) ==
    IF i > Len(s) THEN 0
    ELSE IF s[i] \in S THEN i
    ELSE FindFrom(s, i + 1, S)

---------------------------------------------------------------------------
(* Persistence *)

\* twitchOAuthToken = null
NoToken == [access_token |-> 0, expires_at |-> 0]

\* JSON.stringify of a record: the object identity is not in the file
StripOid(r) == [f \in (DOMAIN r) \ {"oid"} |-> r[f]]

Snapshot(subs) == [i \in DOMAIN subs |-> StripOid(subs[i])]

\* program names as the chat command passes them: strings over a small
\* alphabet, as sequences of characters
ProgramNames == {<<"A">>, <<" ", "a">>, <<"b", " ">>}

\* String.prototype.toLowerCase
ToLowerCase(s) ==
    [i \in 1..Len(s) |-> IF s[i] = "A" THEN "a"
                         ELSE IF s[i] = "B" THEN "b" ELSE s[i]]

\* String.prototype.trim
RECURSIVE TrimStart(_)
TrimStart(s) ==
    IF s # <<>> /\ Head(s) = " " THEN TrimStart(Tail(s)) ELSE s

RECURSIVE TrimEnd(_)
TrimEnd(s) ==
    IF s # <<>> /\ s[Len(s)] = " " THEN TrimEnd(SubSeq(s, 1, Len(s) - 1)) ELSE s

Trim(s) == TrimEnd(TrimStart(s))

\* const normalizedName = programName.toLowerCase().trim()
NormalizedName(programName) == Trim(ToLowerCase(programName))

\* the keys of the counter map; a map holds the count of each key, 0 for a
\* key it does not hold (a stored request has a count of 1 or more)
CounterKeys == {NormalizedName(n) : n \in ProgramNames}
EmptyMap == [key \in CounterKeys |-> 0]

\* data.json is missing or does not parse, which readData answers alike
NoDataFile == [ok |-> FALSE, map |-> EmptyMap]

\* the file-backed counter store before its first call: data === null
CounterIdle ==
    /\ data = [loaded |-> FALSE, map |-> EmptyMap]
    /\ dataFile = NoDataFile
    /\ request = <<>>
    /\ counted = EmptyMap

\* the disk: writeFileSync number `at` of a saveData throws (0: none does),
\* leaving its file as it was or, when torn, cut short; n counts the times
\* the disk has started to fail
NoFault == [at |-> 0, torn |-> FALSE, n |-> 0]

\* a data file that JSON.parse rejects
Corrupt == <<[corrupt |-> TRUE]>>
CorruptToken == [corrupt |-> TRUE]

\* the k-th fs.writeFileSync of saveData: the writes before the failing one
\* replace their files, the failing one throws into the catch and the later
\* ones are not reached
Written(k, old, new, bad) ==
    IF diskFault.at = 0 \/ k < diskFault.at THEN new
    ELSE IF k = diskFault.at /\ diskFault.torn THEN bad
    ELSE old

\* saveData(): every collection is written whole, in the order of the source;
\* the token only when set
SaveDataTokenOnly(subs, tsubs, tok) ==
    /\ UNCHANGED <<subsFile, twitchSubsFile>>
    /\ tokenFile' = IF tok.access_token # 0 THEN tok ELSE tokenFile
SaveData(subs, tsubs, tok) ==
    /\ subsFile' = Written(1, subsFile, Snapshot(subs), Corrupt)
    /\ twitchSubsFile' = Written(2, twitchSubsFile, Snapshot(tsubs), Corrupt)
    /\ tokenFile' = IF tok.access_token # 0
                    THEN Written(3, tokenFile, tok, CorruptToken)
                    ELSE tokenFile

---------------------------------------------------------------------------
(* Observers of the video side.  An event is one completed operation on a  *)
(* record: the 'sub' command, or one push delivery that reached the ledger *)
(* (class "new" or "duplicate"; outcome "suppressed", "delivered",         *)
(* "nochannel" or "sendfailed").                                           *)

SubEvent(o, v, alone) ==
    [op |-> "sub", sub |-> o, videoId |-> v, age |-> 0, class |-> "none",
     outcome |-> IF alone THEN "alone" ELSE "shared"]
PushEvent(o, v, a, cl, out) ==
    [op |-> "push", sub |-> o, videoId |-> v, age |-> a, class |-> cl, outcome |-> out]

NoScenario == [stage |-> 0, sub |-> 0, v1 |-> 0, v2 |-> 0]

\* stage 1: subscribed to a channel whose latest item is v1, as its only
\* subscriber; stage 2: then v1 was pushed (once or more); stage 3: then
\* v2 # v1, published 2 minutes ago, was pushed and no delivery step failed
ScenarioStep(sc, ev) ==
    IF ev.op = "sub"
    THEN IF ev.videoId # 0 /\ ev.outcome = "alone"
         THEN [stage |-> 1, sub |-> ev.sub, v1 |-> ev.videoId, v2 |-> 0]
         ELSE NoScenario
    ELSE IF sc.stage \in {1, 2} /\ ev.sub = sc.sub /\ ev.videoId = sc.v1
         THEN [sc EXCEPT !.stage = 2]
    ELSE IF sc.stage = 2 /\ ev.sub = sc.sub /\ ev.age = 2
            /\ ev.outcome \in {"suppressed", "delivered"}
         THEN [sc EXCEPT !.stage = 3, !.v2 = ev.videoId]
    ELSE NoScenario

NoRun == [sub |-> 0, videoId |-> 0, n |-> 0, class |-> "none"]

\* the n-th feed in a row (n counted up to 3) of one id to one record, and
\* how the ledger classified it
FeedRunStep(fr, ev) ==
    IF ev.op # "push" THEN NoRun
    ELSE IF fr.sub = ev.sub /\ fr.videoId = ev.videoId
         THEN [fr EXCEPT !.n = IF fr.n < 3 THEN fr.n + 1 ELSE 3, !.class = ev.class]
    ELSE [sub |-> ev.sub, videoId |-> ev.videoId, n |-> 1, class |-> ev.class]

Observe(ev) ==
    /\ scenario' = ScenarioStep(scenario, ev)
    /\ feedRun' = FeedRunStep(feedRun, ev)

---------------------------------------------------------------------------
(* Video subscriptions: the 'sub' command and the push handler *)

\* what a route answered: the status and the body of res.status(..).send(..);
\* req is the hub.challenge of a GET ("" when the query has none, or an empty
\* one); n flips at every GET answered
NoResponse == [route |-> "none", req |-> "", status |-> 0, body |-> "", n |-> 0]

IdleHandler == [pc |-> "idle", body |-> [kind |-> "none", entries |-> <<>>],
                videoId |-> 0, age |-> 0, sub |-> 0]

\* the feed documents the hub can POST
Entry(v, c, a) == [videoId |-> v, channelId |-> c, age |-> a]
Feed(v, c, a) == [kind |-> "feed", entries |-> <<Entry(v, c, a)>>]
Malformed == [kind |-> "malformed", entries |-> <<>>]
Deleted == [kind |-> "deleted", entries |-> <<>>]
EmptyFeed == [kind |-> "feed", entries |-> <<>>]
\* a feed with two entries, and a document that holds an at:deleted-entry next
\* to a normal entry
Feed2(v, w, c, a) == [kind |-> "feed", entries |-> <<Entry(v, c, a), Entry(w, c, a)>>]
DeletedAnd(v, c, a) == [kind |-> "deleted", entries |-> <<Entry(v, c, a)>>]
\* a feed whose entry lacks yt:videoId, yt:channelId, title or link: reading
\* entry[..][0] throws
Partial == [kind |-> "partial", entries |-> <<>>]

\* subscribeToWebSub(channelId) up to its await, for each channel of chs: the
\* subscribe request is on its way to the hub
Issue(h, chs) ==
    [h EXCEPT !.req = @ \cup chs,
              !.last = [ch \in Topics |-> IF ch \in chs THEN "none" ELSE @[ch]]]

\* subscriptions.find(s => s.channelId === channelId): index of the first match
FindSubAny(subs, c) == IF Len(subs) > 0 THEN 1 ELSE 0
FindSub(subs, c) ==
    FindFrom([i \in DOMAIN subs |-> subs[i].channelId], 1, {c})

\* the record object o of the array with the mapping f of records applied (a
\* detached object, one spliced out of the array, is no longer reachable from it)
UpdateSub(subs, o, f) ==
    [i \in DOMAIN subs |-> IF subs[i].oid = o THEN f[subs[i]] ELSE subs[i]]

\* the record pushed by 'sub': the channel's current latest video id is
\* bookmarked ('' when the channel has no video)
NewVideoSubNoHistory(o, c, d, currentId) ==
    [oid |-> o, channelId |-> c, discordChannelId |-> d,
     lastPostedVideoId |-> currentId, hasPostedVideos |-> TRUE,
     postedVideos |-> <<>>]
NewVideoSub(o, c, d, currentId) ==
    [oid |-> o, channelId |-> c, discordChannelId |-> d,
     lastPostedVideoId |-> currentId, hasPostedVideos |-> TRUE,
     postedVideos |-> <<currentId>>]

\* messageCreate, command 'sub': subscriptions.push(...); saveData(); then
\* subscribeToWebSub(channelId) up to its await.  The two API reads before the
\* push touch no shared state.
CmdSub(c, d) ==
    /\ nextOid \in Oids
    /\ LET r == NewVideoSub(nextOid, c, d, published)
           subs == Append(subscriptions, r)
       IN /\ subscriptions' = subs
          /\ SaveData(subs, twitchSubscriptions, twitchOAuthToken)
          /\ ledgerLog' = [ledgerLog EXCEPT ![nextOid] = r.postedVideos]
          /\ Observe(SubEvent(nextOid, published, subscriptions = <<>>))
    /\ nextOid' = nextOid + 1
    /\ hub' = Issue(hub, {c})
    /\ UNCHANGED <<webhook, published, sent, streamSide, twitchOAuthToken,
                   twitchDeviceCode, now, callSide, exchangeFailed, storeSide,
                   pollSide, exitSide, webSide, renewAt, diskSide>>

\* BACKWARDS COMPATIBILITY: Create the array if it doesn't exist yet
InitPostedVideos(r) ==
    IF r.hasPostedVideos THEN r
    ELSE [r EXCEPT !.hasPostedVideos = TRUE,
                   !.postedVideos = IF r.lastPostedVideoId # 0
                                    THEN <<r.lastPostedVideoId>> ELSE <<>>]

\* res.status(200).send('OK') is the first statement of the handler, before
\* the body is looked at
PostStatusParsed(p) == IF p.kind \in {"malformed", "partial"} THEN 400 ELSE 200
PostStatus(p) == 200

\* a request arrives: res.status(200).send('OK'), then await parseStringPromise
Post(h, p) ==
    /\ webhook[h].pc = "idle"
    /\ \A g \in DOMAIN webhook : g < h => webhook[g].pc # "idle"
    /\ webhook' = [webhook EXCEPT ![h] = [IdleHandler EXCEPT !.pc = "parse", !.body = p]]
    /\ response' = [route |-> "POST", req |-> "", status |-> PostStatus(p),
                    body |-> "OK", n |-> response.n]
    /\ UNCHANGED <<subscriptions, nextOid, sent, ledgerLog, scenario, feedRun,
                   files, streamSide, tokenCore, exitSide>>

\* the hub delivers the entry of a video the channel has just published
Upload(h, p) ==
    /\ Post(h, p)
    /\ published' = published + 1

\* the hub delivers anything else: an entry of an existing video, a delete
\* entry, an empty feed, or a body that does not parse
Redeliver(h, p) ==
    /\ Post(h, p)
    /\ UNCHANGED published

\* if (!sub.postedVideos.includes(videoId))
SeenNever(r, videoId) == FALSE
SeenLast(r, videoId) == videoId = r.lastPostedVideoId
Seen(r, videoId) == Includes(r.postedVideos, videoId)

\* from the parse to the first await after it (client.channels.fetch)
Parsed(h) ==
    LET b == webhook[h].body
        e == b.entries[1]
        i == FindSub(subscriptions, e.channelId)
        r == InitPostedVideos(subscriptions[i])
    IN
    /\ webhook[h].pc = "parse"
    /\ IF b.kind # "feed" \/ b.entries = <<>>
       THEN \* parse error or TypeError caught and logged; deleted-entry; no entry
            /\ webhook' = [webhook EXCEPT ![h] = IdleHandler]
            /\ early' = CASE b.kind \in {"malformed", "partial"} -> "webhook"
                           [] b.kind = "deleted" -> "deleted"
                           [] OTHER -> "noentry"
            /\ UNCHANGED <<subscriptions, ledgerLog, scenario, feedRun>>
       ELSE IF i = 0
       THEN \* nobody subscribed to that channel
            /\ webhook' = [webhook EXCEPT ![h] = IdleHandler]
            /\ early' = IF subscriptions = <<>> THEN "nosubs" ELSE "nosub"
            /\ UNCHANGED <<subscriptions, ledgerLog, scenario, feedRun>>
       ELSE /\ subscriptions' = [subscriptions EXCEPT ![i] = r]
            /\ early' = "none"
            /\ ledgerLog' = [ledgerLog EXCEPT ![r.oid] =
                  IF subscriptions[i].hasPostedVideos THEN @ ELSE r.postedVideos]
            /\ IF Seen(r, e.videoId)
               THEN /\ webhook' = [webhook EXCEPT ![h] = IdleHandler]
                    /\ Observe(PushEvent(r.oid, e.videoId, e.age, "duplicate",
                                         "suppressed"))
               ELSE /\ webhook' = [webhook EXCEPT ![h] =
                          [IdleHandler EXCEPT !.pc = "fetch", !.body = b,
                                              !.videoId = e.videoId,
                                              !.age = e.age, !.sub = r.oid]]
                    /\ UNCHANGED <<scenario, feedRun>>
    /\ UNCHANGED <<published, nextOid, sent, files, streamSide, tokenCore, webSide>>

\* client.channels.fetch(sub.discordChannelId) settles: a guild text channel,
\* another kind of channel (or none), or a rejection caught by the handler
Fetched(h, res) ==
    /\ webhook[h].pc = "fetch"
    /\ IF res = "text"
       THEN /\ webhook' = [webhook EXCEPT ![h].pc = "send"]
            /\ UNCHANGED <<scenario, feedRun>>
       ELSE /\ webhook' = [webhook EXCEPT ![h] = IdleHandler]
            /\ Observe(PushEvent(webhook[h].sub, webhook[h].videoId,
                                 webhook[h].age, "new", "nochannel"))
    /\ early' = IF res = "throw" THEN "webhook" ELSE "none"
    /\ UNCHANGED <<subscriptions, published, nextOid, sent, ledgerLog, files,
                   streamSide, tokenCore, webSide>>

\* sub.postedVideos.push(videoId); shift past 10; sub.lastPostedVideoId = videoId
RecordNoLast(r, videoId) ==
    [r EXCEPT !.postedVideos = ShiftOver(Append(r.postedVideos, videoId))]
Record(r, videoId) ==
    [r EXCEPT !.postedVideos = ShiftOver(Append(r.postedVideos, videoId)),
              !.lastPostedVideoId = videoId]

\* discordChannel.send settles: delivered, then the ledger is advanced and
\* saved; or rejected, caught and logged
SentAlwaysRecords(h, res) ==
    LET o == webhook[h].sub
        v == webhook[h].videoId
        RecordV == [r \in Range(subscriptions) |-> Record(r, v)]
        subs == UpdateSub(subscriptions, o, RecordV)
    IN
    /\ webhook[h].pc = "send"
    /\ webhook' = [webhook EXCEPT ![h] = IdleHandler]
    /\ sent' = IF res = "ok"
               THEN sent (+) SetToBag({[videoId |-> v, sub |-> o,
                                        age |-> webhook[h].age]})
               ELSE sent
    /\ subscriptions' = subs
    /\ ledgerLog' = [ledgerLog EXCEPT ![o] = Append(@, v)]
    /\ SaveData(subs, twitchSubscriptions, twitchOAuthToken)
    /\ Observe(PushEvent(o, v, webhook[h].age, "new",
                         IF res = "ok" THEN "delivered" ELSE "sendfailed"))
    /\ early' = IF res = "ok" THEN "none" ELSE "webhook"
    /\ UNCHANGED <<published, nextOid, streamSide, tokenCore, webSide>>
Sent(h, res) ==
    LET o == webhook[h].sub
        v == webhook[h].videoId
        RecordV == [r \in Range(subscriptions) |-> Record(r, v)]
        subs == UpdateSub(subscriptions, o, RecordV)
    IN
    /\ webhook[h].pc = "send"
    /\ webhook' = [webhook EXCEPT ![h] = IdleHandler]
    /\ IF res = "ok"
       THEN /\ sent' = sent (+) SetToBag({[videoId |-> v, sub |-> o,
                                           age |-> webhook[h].age]})
            /\ subscriptions' = subs
            /\ ledgerLog' = [ledgerLog EXCEPT ![o] = Append(@, v)]
            /\ SaveData(subs, twitchSubscriptions, twitchOAuthToken)
            /\ Observe(PushEvent(o, v, webhook[h].age, "new", "delivered"))
       ELSE /\ UNCHANGED <<sent, subscriptions, ledgerLog, files>>
            /\ Observe(PushEvent(o, v, webhook[h].age, "new", "sendfailed"))
    /\ early' = IF res = "ok" THEN "none" ELSE "webhook"
    /\ UNCHANGED <<published, nextOid, streamSide, tokenCore, webSide>>

---------------------------------------------------------------------------
(* Initial states and specifications of the video side *)

\* a record of subscriptions.json written by the polling variant of the bot:
\* it has no postedVideos
LegacySub(o, c, d, last) ==
    [oid |-> o, channelId |-> c, discordChannelId |-> d,
     lastPostedVideoId |-> last, hasPostedVideos |-> FALSE, postedVideos |-> <<>>]

Ages == {2, 5, DayMinutes, 2 * DayMinutes}
FetchResults == {"text", "other", "throw"}
SendResults == {"ok", "throw"}

InitStreamSide ==
    /\ twitchSubscriptions = <<>>
    /\ twitchSubsFile = <<>>
    /\ sweep = <<>>
    /\ upstream = <<>>
    /\ period = <<>>
    /\ twitchSent = EmptyBag
    /\ streamObs = <<>>
    /\ staleClear = FALSE

\* the hub: per channel the time its lease expires (0: no lease), the
\* channels with a subscribe request in flight, and for the observer the last
\* answer per channel and whether any request was ever rejected
NoHub == [lease |-> [ch \in Topics |-> 0], req |-> {},
          last |-> [ch \in Topics |-> "none"], rejected |-> FALSE]

\* loadData has read nothing
NoLoad == [subs |-> "none", tsubs |-> "none", token |-> "none"]

\* no video sweep finished yet
NoPollDone == [done |-> FALSE, n |-> 0, store |-> {}, visited |-> {},
               failed |-> {}, notified |-> {}]

\* no command handled yet
NoCmd == [cmd |-> "none", src |-> "", dest |-> "", found |-> FALSE, n |-> 0]

\* no device flow under way, no other caller of getTwitchAccessToken
NoPoll == [pending |-> "none", hard |-> "none", last |-> "none"]

InitNoCallers ==
    /\ twitchDeviceAuthUrl = 0
    /\ grant = <<>>
    /\ tokenCall = <<>>
    /\ tokenLog = <<>>
    /\ pollObs = NoPoll
    /\ exchangeFailed = FALSE
    /\ lastCmd = NoCmd
    /\ vsweep = <<>>
    /\ pollDone = NoPollDone
    /\ early = "none"
    /\ response = NoResponse
    /\ hub = NoHub
    /\ renewAt = 0
    /\ diskFault = NoFault
    /\ CounterIdle
    /\ loadObs = NoLoad

InitTokenSide ==
    /\ twitchOAuthToken = NoToken
    /\ twitchDeviceCode = 0
    /\ tokenFile = NoToken
    /\ now = 0
    /\ sweepTimer = TRUE
    /\ ready = TRUE
    /\ InitNoCallers

\* loadData(): no data file yet, or a subscriptions.json of the polling variant
InitVideo ==
    /\ InitStreamSide
    /\ InitTokenSide
    /\ webhook = [h \in 1..MaxHandlers |-> IdleHandler]
    /\ sent = EmptyBag
    /\ ledgerLog = [o \in Oids |-> <<>>]
    /\ scenario = NoScenario
    /\ feedRun = NoRun
    /\ \/ /\ subscriptions = <<>>
          /\ nextOid = 1
          /\ published = 0
       \/ /\ published = 1
          /\ nextOid = 2
          /\ \E last \in 0..1 :
                subscriptions = <<LegacySub(1, "C1", "D1", last)>>
    /\ subsFile = Snapshot(subscriptions)

\* the steps of the handlers in slots 1..n, settling with the given results
HandlerSteps(n, fetchRes, sendRes) ==
    \/ \E h \in 1..n : Parsed(h)
    \/ \E h \in 1..n, res \in fetchRes : Fetched(h, res)
    \/ \E h \in 1..n, res \in sendRes : Sent(h, res)

\* concurrent deliveries to one record, every outcome of fetch and send
PushNext ==
    \/ \E c \in Channels, d \in Dests : nextOid = 1 /\ CmdSub(c, d)
    \/ \E h \in 1..MaxHandlers, c \in Channels :
          published < MaxVideos /\ Upload(h, Feed(published + 1, c, 2))
    \/ \E h \in 1..MaxHandlers, v \in 1..published, c \in Channels :
          Redeliver(h, Feed(v, c, 2))
    \/ \E h \in 1..MaxHandlers, p \in {Malformed, Deleted, EmptyFeed} :
          Redeliver(h, p)
    \/ HandlerSteps(MaxHandlers, FetchResults, SendResults)

SpecPush == InitVideo /\ [][PushNext]_vars

\* deliveries handled one after another, every outcome of fetch and send
SeqNext ==
    \/ \E c \in Channels, d \in Dests : CmdSub(c, d)
    \/ \E c \in Channels, a \in Ages :
          published < MaxVideos /\ Upload(1, Feed(published + 1, c, a))
    \/ \E v \in 1..published, c \in Channels, a \in Ages : Redeliver(1, Feed(v, c, a))
    \/ \E p \in {Malformed, Deleted, EmptyFeed} : Redeliver(1, p)
    \/ HandlerSteps(1, FetchResults, SendResults)

SpecSeq == InitVideo /\ [][SeqNext]_vars

\* deliveries handled one after another, every delivery succeeds, one record
HistNext ==
    \/ \E c \in Channels, d \in Dests :
          nextOid = 1 /\ published <= 1 /\ CmdSub(c, d)
    \/ \E c \in Channels :
          /\ published < HistVideos
          /\ BagCardinality(sent) < MaxSent
          /\ Upload(1, Feed(published + 1, c, 2))
    \/ \E v \in 1..published, c \in Channels :
          /\ BagCardinality(sent) < MaxSent
          /\ Redeliver(1, Feed(v, c, 2))
    \/ HandlerSteps(1, {"text"}, {"ok"})

SpecHist == InitVideo /\ [][HistNext]_vars

---------------------------------------------------------------------------
(* Properties of the video side *)

\* how many messages about video v were delivered for record o
NotifyCount(o, v) ==
    LET key(m) == <<m.sub, m.videoId>>
    IN CopiesIn(<<o, v>>, BagOfAll(key, sent))

\* how many messages were delivered for record o
NotifyTotal(o) ==
    LET key(m) == m.sub
    IN CopiesIn(o, BagOfAll(key, sent))

Occurrences(s, x) == Cardinality({i \in DOMAIN s : s[i] = x})

VideoIds == 0..HistVideos

\* C1 as stated: with deliveries handled one after another and every
\* delivery succeeding, no content id is ever notified twice for a record,
\* however many other ids are delivered in between.
C1_AtMostOnceEver ==
    \A o \in Oids, v \in VideoIds : NotifyCount(o, v) <= 1

\* C1 amended: with deliveries handled one after another and every delivery
\* succeeding, a content id is notified again for a record only after at
\* least 10 other ids were recorded in that record's history since it was
\* last recorded: while an id is among the 10 entries of the history it is
\* never notified again.  (Every notification is one append to the history.)
C1_AtMostOnceWhileInHistory ==
    \A o \in Oids :
        /\ \A i, j \in DOMAIN ledgerLog[o] :
              (i < j /\ ledgerLog[o][i] = ledgerLog[o][j]) => j - i > HistoryLimit
        /\ \A v \in VideoIds : NotifyCount(o, v) <= Occurrences(ledgerLog[o], v)

\* C1 witness: an id evicted from the history was delivered again and was
\* notified a second time
C1_Witness ==
    \E o \in Oids, v \in VideoIds :
        NotifyCount(o, v) = 2 /\ Occurrences(ledgerLog[o], v) = 2

\* C2 as stated, for a video record: when the same id is fed k >= 2 times in
\* a row with nothing in between, every feed after the first is classified
\* duplicate.
C2_LaterFeedsDuplicate ==
    feedRun.n >= 2 => feedRun.class = "duplicate"

\* C3: the history never holds more than 10 entries and is always the last
\* 10 ids appended to it, in insertion order: once 10 or more ids were
\* appended it holds exactly 10, and each overflow evicted the oldest entry.
C3_HistoryBound ==
    \A i \in DOMAIN subscriptions :
        LET r == subscriptions[i]
        IN r.hasPostedVideos =>
              /\ Len(r.postedVideos) <= HistoryLimit
              /\ r.postedVideos = LastN(ledgerLog[r.oid], HistoryLimit)
              /\ Len(ledgerLog[r.oid]) >= HistoryLimit =>
                    Len(r.postedVideos) = HistoryLimit

\* C3 witness: more than 10 ids were appended, so the oldest were evicted
C3_Witness ==
    \E i \in DOMAIN subscriptions :
        /\ Len(ledgerLog[subscriptions[i].oid]) > HistoryLimit + 1
        /\ Len(subscriptions[i].postedVideos) = HistoryLimit

\* C4: whenever the history of a record is non-empty, lastPostedVideoId is
\* its last element.
C4_LastIsNewest ==
    \A i \in DOMAIN subscriptions :
        LET r == subscriptions[i]
        IN (r.hasPostedVideos /\ r.postedVideos # <<>>) =>
              r.lastPostedVideoId = r.postedVideos[Len(r.postedVideos)]

\* C4 witness: a record whose history grew by a push delivery while another
\* delivery for it is still in flight
C4_Witness ==
    \E i \in DOMAIN subscriptions :
        /\ Len(subscriptions[i].postedVideos) >= 2
        /\ NotifyTotal(subscriptions[i].oid) >= 1
        /\ \E h \in DOMAIN webhook : webhook[h].pc = "send"

\* the record with identity o, when it is in the array
HasSub(o) == \E i \in DOMAIN subscriptions : subscriptions[i].oid = o
SubOf(o) == subscriptions[CHOOSE i \in DOMAIN subscriptions : subscriptions[i].oid = o]

\* C5: subscribe to a channel whose latest item is V1: lastPostedVideoId = V1,
\* history [V1], nothing notified; V1 pushed again: still nothing notified and
\* the history has not grown; then V2, published 2 minutes ago, is pushed:
\* exactly one notification, lastPostedVideoId = V2, history [V1, V2].
C5_VideoScenario ==
    /\ scenario.stage \in {1, 2} =>
          /\ HasSub(scenario.sub)
          /\ SubOf(scenario.sub).lastPostedVideoId = scenario.v1
          /\ SubOf(scenario.sub).postedVideos = <<scenario.v1>>
          /\ NotifyTotal(scenario.sub) = 0
    /\ scenario.stage = 3 =>
          /\ HasSub(scenario.sub)
          /\ SubOf(scenario.sub).lastPostedVideoId = scenario.v2
          /\ SubOf(scenario.sub).postedVideos = <<scenario.v1, scenario.v2>>
          /\ NotifyCount(scenario.sub, scenario.v2) = 1
          /\ NotifyTotal(scenario.sub) = 1

\* C5 witness: the three steps of the scenario have happened
C5_Witness == scenario.stage = 3 /\ scenario.v1 = 1 /\ scenario.v2 = 2

\* C6 as stated: a pushed item whose publish time is 24 hours or more in the
\* past is never notified.
C6_OldItemsNotNotified ==
    \A m \in BagToSet(sent) : m.age < DayMinutes

\* C10 as stated: two deliveries of the same unseen id handled at the same
\* time send one notification and put the id once in the history.
C10_OneNotificationPerId ==
    \A i \in DOMAIN subscriptions, v \in VideoIds :
        /\ NotifyCount(subscriptions[i].oid, v) <= 1
        /\ Occurrences(subscriptions[i].postedVideos, v) <= 1

---------------------------------------------------------------------------
(* Observers of the stream side.  A visit is what one sweep did with one   *)
(* record: the session id its query result held for the record's user (0   *)
(* when absent), lastNotifiedStreamId before and after, and whether        *)
(* notifyTwitchLive was invoked.                                           *)

Visit(res, before, invoked, after) ==
    [res |-> res, before |-> before, invoked |-> invoked, after |-> after]

\* stage k: the last k visits of the record were the first k of
\*   live with a session s1 not yet notified / live with s1 / absent / live with s1
\* log holds those visits; lastRes is the result of the latest visit (-1: none);
\* slotPeriod is the live period of the query result that last set the slot
NoObs == [stage |-> 0, s1 |-> 0, log |-> <<>>, lastRes |-> -1, slotPeriod |-> 0]

ObsStep(ob, e) ==
    LET base == [ob EXCEPT !.lastRes = e.res]
    IN IF \/ ob.stage \in {1, 3} /\ e.res = ob.s1
          \/ ob.stage = 2 /\ e.res = 0
       THEN [base EXCEPT !.stage = @ + 1, !.log = Append(@, e)]
       ELSE IF e.res # 0 /\ e.before # e.res
       THEN [base EXCEPT !.stage = 1, !.s1 = e.res, !.log = <<e>>]
       ELSE [base EXCEPT !.stage = 0, !.s1 = 0, !.log = <<>>]

---------------------------------------------------------------------------
(* Stream subscriptions: checkForLiveStreams, one bulk query per sweep *)

TwitchSub(o, u, d, last) ==
    [oid |-> o, twitchUserId |-> u, discordChannelId |-> d,
     lastNotifiedStreamId |-> last]

NoStream == [id |-> 0, period |-> 0]

IdleRun == [pc |-> "idle", ids |-> {}, live |-> [u \in Users |-> NoStream],
            i |-> 0, sub |-> 0, before |-> 0]

\* if (!twitchOAuthToken || twitchOAuthToken.expires_at <= Date.now() + 60000)
TokenStaleNever(tok, t) == FALSE
TokenStaleAlways(tok, t) == TRUE
TokenStale(tok, t) == tok.access_token = 0 \/ tok.expires_at <= t + Skew

\* the token of a successful exchange: another access token, expiring in e
NewToken(tok, t, e) ==
    [access_token |-> IF tok.access_token = 1 THEN 2 ELSE 1, expires_at |-> t + e]

\* [...new Set(twitchSubscriptions.map(s => s.twitchUserId))]
QueryIds(tsubs) == {tsubs[i].twitchUserId : i \in DOMAIN tsubs}

\* res.data.data of the bulk query: the live stream of each queried user
LiveStreams(ids) ==
    [u \in Users |-> IF u \in ids THEN [id |-> upstream[u], period |-> period[u]]
                     ELSE [id |-> 0, period |-> period[u]]]

\* if (stream.id !== sub.lastNotifiedStreamId)
IsNewAlways(r, st) == TRUE
IsNew(r, st) == st.id # r.lastNotifiedStreamId

\* else { sub.lastNotifiedStreamId = "" }
ClearSlotNever(r) == r
ClearSlot(r) == [r EXCEPT !.lastNotifiedStreamId = 0]

\* sub.lastNotifiedStreamId = stream.id
SetSlotNever(r, id) == r
SetSlot(r, id) == [r EXCEPT !.lastNotifiedStreamId = id]

\* for (const sub of twitchSubscriptions), from index i up to the first record
\* that needs a notification (the first await): the records, the observers and
\* the index of that record, 0 when the loop has finished
RECURSIVE SweepFrom(_, _, _, _, _)
SweepFrom(tsubs, live, i, obs, stale) ==
    IF i > Len(tsubs)
    THEN [subs |-> tsubs, obs |-> obs, stale |-> stale, i |-> 0]
    ELSE LET r == tsubs[i]
             st == live[r.twitchUserId]
             last == r.lastNotifiedStreamId
         IN IF st.id # 0
            THEN IF IsNew(r, st)
                 THEN [subs |-> tsubs, obs |-> obs, stale |-> stale, i |-> i]
                 ELSE SweepFrom(tsubs, live, i + 1,
                        [obs EXCEPT ![r.oid] = ObsStep(@, Visit(st.id, last, 0, last))],
                        stale)
            ELSE SweepFrom([tsubs EXCEPT ![i] = ClearSlot(r)], live, i + 1,
                        [obs EXCEPT ![r.oid] =
                            ObsStep(@, Visit(0, last, 0, ClearSlot(r).lastNotifiedStreamId))],
                        stale \/ (last # 0 /\ obs[r.oid].slotPeriod > st.period))

\* the run goes on from record i until it awaits notifyTwitchLive or returns
RunLoop(run, tsubs, live, i, obs, stale) ==
    LET res == SweepFrom(tsubs, live, i, obs, stale)
        r == res.subs[res.i]
        st == live[r.twitchUserId]
    IN /\ twitchSubscriptions' = res.subs
       /\ streamObs' = res.obs
       /\ staleClear' = res.stale
       /\ IF res.i = 0
          THEN /\ sweep' = [sweep EXCEPT ![run] = IdleRun]
               /\ UNCHANGED twitchSent
          ELSE /\ sweep' = [sweep EXCEPT ![run] =
                     [pc |-> "nfetch", ids |-> {}, live |-> live, i |-> res.i,
                      sub |-> r.oid, before |-> r.lastNotifiedStreamId]]
               /\ twitchSent' = twitchSent (+)
                     SetToBag({[sub |-> r.oid, session |-> st.id, period |-> st.period]})

\* setInterval(checkForLiveStreams, TWITCH_CHECK_INTERVAL) fires: the run
\* returns at once without records, else asks for the token and, when the
\* cached one is usable, issues the bulk query
TimerFire(run) ==
    /\ sweep[run].pc = "idle"
    /\ \A g \in DOMAIN sweep : g < run => sweep[g].pc # "idle"
    /\ Len(twitchSubscriptions) # 0
    /\ sweep' = [sweep EXCEPT ![run] =
          IF TokenStale(twitchOAuthToken, now)
          THEN [IdleRun EXCEPT !.pc = "exchange"]
          ELSE [IdleRun EXCEPT !.pc = "query", !.ids = QueryIds(twitchSubscriptions)]]
    /\ early' = "none"
    /\ UNCHANGED <<twitchSubscriptions, upstream, period, twitchSent, streamObs,
                   staleClear, videoSide, tokenCore, webSide, files>>

\* the client-credentials exchange settles: e = 0 is a failure (the run returns
\* on the null token), else the token is replaced and saved and the query issued
Exchanged(run, e) ==
    /\ sweep[run].pc = "exchange"
    /\ IF e = 0
       THEN /\ sweep' = [sweep EXCEPT ![run] = IdleRun]
            /\ exchangeFailed' = TRUE
            /\ UNCHANGED <<twitchOAuthToken, files>>
       ELSE /\ twitchOAuthToken' = NewToken(twitchOAuthToken, now, e)
            /\ SaveData(subscriptions, twitchSubscriptions, twitchOAuthToken')
            /\ sweep' = [sweep EXCEPT ![run] =
                  [IdleRun EXCEPT !.pc = "query", !.ids = QueryIds(twitchSubscriptions)]]
            /\ UNCHANGED exchangeFailed
    /\ UNCHANGED <<twitchSubscriptions, upstream, period, twitchSent, streamObs,
                   staleClear, videoSide, twitchDeviceCode, now, callSide, storeSide, pollSide, exitSide, webSide, leaseSide, diskSide>>

\* catch (e) { logError("Twitch Bulk Check", e); } around the query and the
\* loop: a rejected query skips the loop, the run returns
QueryThrewAsEmpty(run) ==
    RunLoop(run, twitchSubscriptions, [u \in Users |-> NoStream], 1, streamObs,
            staleClear)
QueryThrew(run) ==
    /\ sweep' = [sweep EXCEPT ![run] = IdleRun]
    /\ UNCHANGED <<twitchSubscriptions, twitchSent, streamObs, staleClear>>

\* the bulk query settles: rejected, or answered with the streams that are
\* live now
Queried(run, res) ==
    /\ sweep[run].pc = "query"
    /\ IF res = "throw"
       THEN /\ QueryThrew(run)
            /\ early' = "query"
       ELSE /\ RunLoop(run, twitchSubscriptions, LiveStreams(sweep[run].ids), 1,
                       streamObs, staleClear)
            /\ early' = "none"
    /\ UNCHANGED <<upstream, period, videoSide, tokenCore, webSide, files>>

\* notifyTwitchLive has returned (it swallows every error): the slot is set on
\* the record object the run holds, the data is saved and the loop goes on
NotifyReturned(run) ==
    LET o == sweep[run].sub
        live == sweep[run].live
        i == sweep[run].i
        SetO == [r \in Range(twitchSubscriptions) |-> SetSlot(r, live[r.twitchUserId].id)]
        subs == UpdateSub(twitchSubscriptions, o, SetO)
        u == CHOOSE u \in Users :
                \E k \in DOMAIN subs : subs[k].oid = o /\ subs[k].twitchUserId = u
        obs == [streamObs EXCEPT ![o] =
                   [ObsStep(@, Visit(live[u].id, sweep[run].before, 1, live[u].id))
                       EXCEPT !.slotPeriod = live[u].period]]
    IN /\ SaveData(subscriptions, subs, twitchOAuthToken)
       /\ RunLoop(run, subs, live, i + 1, obs, staleClear)

\* client.channels.fetch inside notifyTwitchLive settles
NFetched(run, res) ==
    /\ sweep[run].pc = "nfetch"
    /\ IF res = "text"
       THEN /\ sweep' = [sweep EXCEPT ![run].pc = "nsend"]
            /\ UNCHANGED <<twitchSubscriptions, twitchSent, streamObs, staleClear,
                           files>>
       ELSE NotifyReturned(run)
    /\ UNCHANGED <<upstream, period, videoSide, tokenSide>>

\* channel.send inside notifyTwitchLive settles
NSent(run, res) ==
    /\ sweep[run].pc = "nsend"
    /\ res \in SendResults
    /\ NotifyReturned(run)
    /\ UNCHANGED <<upstream, period, videoSide, tokenSide>>

\* upstream: a subscribed user goes live with session id s, or ends the stream
GoLive(u, s, cap) ==
    /\ u \in QueryIds(twitchSubscriptions)
    /\ upstream[u] = 0
    /\ period[u] < cap
    /\ upstream' = [upstream EXCEPT ![u] = s]
    /\ period' = [period EXCEPT ![u] = @ + 1]
    /\ UNCHANGED <<twitchSubscriptions, sweep, twitchSent, streamObs, staleClear,
                   videoSide, tokenSide, files>>

GoOffline(u) ==
    /\ upstream[u] # 0
    /\ upstream' = [upstream EXCEPT ![u] = 0]
    /\ UNCHANGED <<twitchSubscriptions, sweep, period, twitchSent, streamObs,
                   staleClear, videoSide, tokenSide, files>>

---------------------------------------------------------------------------
(* Initial states and specifications of the stream side *)

ExpiresIn == {60}
UserOf(k) == IF k % 2 = 1 THEN "U1" ELSE "U2"

InitVideoSide ==
    /\ subscriptions = <<>>
    /\ subsFile = <<>>
    /\ webhook = [h \in 1..MaxHandlers |-> IdleHandler]
    /\ published = 0
    /\ nextOid = 1
    /\ sent = EmptyBag
    /\ ledgerLog = [o \in Oids |-> <<>>]
    /\ scenario = NoScenario
    /\ feedRun = NoRun

\* loadData(): a twitch_subscriptions.json with one or more records, no token
InitStream ==
    /\ InitVideoSide
    /\ InitTokenSide
    /\ \E n \in 1..MaxTwitchSubs, l \in 0..1 :
          twitchSubscriptions =
             [k \in 1..n |-> TwitchSub(k, UserOf(k), "D1", IF k = 1 THEN l ELSE 0)]
    /\ twitchSubsFile = Snapshot(twitchSubscriptions)
    /\ sweep = [r \in 1..MaxRuns |-> IdleRun]
    /\ upstream = [u \in Users |-> 0]
    /\ period = [u \in Users |-> 0]
    /\ twitchSent = EmptyBag
    /\ streamObs = [o \in TwitchOids |-> NoObs]
    /\ staleClear = FALSE

Upstream(cap) ==
    \/ \E u \in Users, s \in 1..MaxSessions : GoLive(u, s, cap)
    \/ \E u \in Users : GoOffline(u)

RunSteps(n) ==
    \/ \E run \in 1..n : TimerFire(run)
    \/ \E run \in 1..n, e \in {0} \cup ExpiresIn : Exchanged(run, e)
    \/ \E run \in 1..n, res \in {"throw", "ok"} : Queried(run, res)
    \/ \E run \in 1..n, res \in FetchResults : NFetched(run, res)
    \/ \E run \in 1..n, res \in SendResults : NSent(run, res)

\* sweeps that may overlap
StreamNext == Upstream(OverlapPeriods) \/ RunSteps(MaxRuns)

SpecStream == InitStream /\ [][StreamNext]_vars

\* sweeps that never overlap
StreamSeqNext == Upstream(MaxPeriods) \/ RunSteps(1)

SpecStreamSeq == InitStream /\ [][StreamSeqNext]_vars

---------------------------------------------------------------------------
(* Stream subscriptions in the server variant: checkForLiveStreams with    *)
(* one checkIfTwitchLive query per record                                  *)

\* saveSubscriptions(): the same three files
saveSubscriptions(subs, tsubs, tok) == SaveData(subs, tsubs, tok)

\* getTwitchAccessToken of the server with a token loaded: the access token
\* is returned whether or not it has expired, without a network call
SrvAccessToken(tok) == tok.access_token

\* the loop moves on to the record after index i, or the run returns; ids is
\* the user_id parameter of the query checkIfTwitchLive issues for that record
SrvAdvance(run, i) ==
    sweep' = [sweep EXCEPT ![run] =
        IF i + 1 > Len(twitchSubscriptions)
        THEN IdleRun
        ELSE [IdleRun EXCEPT !.pc = "squery", !.i = i + 1,
                             !.ids = {twitchSubscriptions[i + 1].twitchUserId},
                             !.sub = twitchSubscriptions[i + 1].oid]]

\* setInterval(checkForLiveStreams, CHECK_INTERVAL) fires: the query for the
\* first record is issued (checkIfTwitchLive returns null without a token)
SrvTimerFire(run) ==
    /\ sweep[run].pc = "idle"
    /\ \A g \in DOMAIN sweep : g < run => sweep[g].pc # "idle"
    /\ Len(twitchSubscriptions) # 0
    /\ SrvAccessToken(twitchOAuthToken) # 0
    /\ sweep' = [sweep EXCEPT ![run] =
          [IdleRun EXCEPT !.pc = "squery", !.i = 1,
                          !.ids = {twitchSubscriptions[1].twitchUserId},
                          !.sub = twitchSubscriptions[1].oid]]
    /\ UNCHANGED <<twitchSubscriptions, upstream, period, twitchSent, streamObs,
                   staleClear, videoSide, tokenSide, files>>

\* checkIfTwitchLive settles for the record: the query was rejected (null), or
\* answered with the user's live stream or with nothing (null).  A new session
\* is notified; in every other case the record is left as it is
SrvQueried(run, res) ==
    LET i == sweep[run].i
        r == twitchSubscriptions[i]
        u == r.twitchUserId
        st == IF res = "ok" THEN [id |-> upstream[u], period |-> period[u]]
              ELSE NoStream
        last == r.lastNotifiedStreamId
    IN /\ sweep[run].pc = "squery"
       /\ IF st.id # 0 /\ IsNew(r, st)
          THEN /\ sweep' = [sweep EXCEPT ![run] =
                     [pc |-> "snfetch", ids |-> {},
                      live |-> [IdleRun.live EXCEPT ![u] = st],
                      i |-> i, sub |-> r.oid, before |-> last]]
               /\ twitchSent' = twitchSent (+)
                     SetToBag({[sub |-> r.oid, session |-> st.id, period |-> st.period]})
               /\ UNCHANGED streamObs
          ELSE /\ SrvAdvance(run, i)
               /\ streamObs' = [streamObs EXCEPT ![r.oid] =
                     IF res = "ok" THEN ObsStep(@, Visit(st.id, last, 0, last))
                     ELSE [NoObs EXCEPT !.slotPeriod = streamObs[r.oid].slotPeriod]]
               /\ UNCHANGED twitchSent
       /\ UNCHANGED <<twitchSubscriptions, upstream, period, staleClear, videoSide,
                      tokenSide, files>>

\* notifyTwitchLive has returned: the slot is set, the data saved, next record
SrvNotifyReturned(run) ==
    LET o == sweep[run].sub
        live == sweep[run].live
        SetO == [r \in Range(twitchSubscriptions) |-> SetSlot(r, live[r.twitchUserId].id)]
        subs == UpdateSub(twitchSubscriptions, o, SetO)
        u == CHOOSE u \in Users :
                \E k \in DOMAIN subs : subs[k].oid = o /\ subs[k].twitchUserId = u
    IN /\ twitchSubscriptions' = subs
       /\ saveSubscriptions(subscriptions, subs, twitchOAuthToken)
       /\ streamObs' = [streamObs EXCEPT ![o] =
             [ObsStep(@, Visit(live[u].id, sweep[run].before, 1, live[u].id))
                 EXCEPT !.slotPeriod = live[u].period]]
       /\ SrvAdvance(run, sweep[run].i)

SrvNFetched(run, res) ==
    /\ sweep[run].pc = "snfetch"
    /\ IF res = "text"
       THEN /\ sweep' = [sweep EXCEPT ![run].pc = "snsend"]
            /\ UNCHANGED <<twitchSubscriptions, streamObs, files>>
       ELSE SrvNotifyReturned(run)
    /\ UNCHANGED <<upstream, period, twitchSent, staleClear, videoSide, tokenSide>>

SrvNSent(run, res) ==
    /\ sweep[run].pc = "snsend"
    /\ res \in SendResults
    /\ SrvNotifyReturned(run)
    /\ UNCHANGED <<upstream, period, twitchSent, staleClear, videoSide, tokenSide>>

\* loadSubscriptions() of the server: records and a token on file
InitSrvStream ==
    /\ InitVideoSide
    /\ twitchOAuthToken = [access_token |-> 1, expires_at |-> 60]
    /\ tokenFile = twitchOAuthToken
    /\ twitchDeviceCode = 0
    /\ now = 0
    /\ sweepTimer = TRUE
    /\ ready = TRUE
    /\ InitNoCallers
    /\ \E n \in 1..MaxTwitchSubs, l \in 0..1 :
          twitchSubscriptions =
             [k \in 1..n |-> TwitchSub(k, UserOf(k), "D1", IF k = 1 THEN l ELSE 0)]
    /\ twitchSubsFile = Snapshot(twitchSubscriptions)
    /\ sweep = [r \in 1..MaxRuns |-> IdleRun]
    /\ upstream = [u \in Users |-> 0]
    /\ period = [u \in Users |-> 0]
    /\ twitchSent = EmptyBag
    /\ streamObs = [o \in TwitchOids |-> NoObs]
    /\ staleClear = FALSE

\* sweeps of the server variant that never overlap
SrvStreamNext ==
    \/ Upstream(MaxPeriods)
    \/ SrvTimerFire(1)
    \/ \E res \in {"throw", "ok"} : SrvQueried(1, res)
    \/ \E res \in FetchResults : SrvNFetched(1, res)
    \/ \E res \in SendResults : SrvNSent(1, res)

SpecSrvStream == InitSrvStream /\ [][SrvStreamNext]_vars

---------------------------------------------------------------------------
(* Properties of the stream side *)

Slot(o) ==
    LET k == CHOOSE k \in DOMAIN twitchSubscriptions : twitchSubscriptions[k].oid = o
    IN twitchSubscriptions[k].lastNotifiedStreamId

HasTwitchSub(o) == \E k \in DOMAIN twitchSubscriptions : twitchSubscriptions[k].oid = o

\* C7: over four consecutive non-overlapping sweeps of a record - live with a
\* session S1 not yet notified, live with S1, absent, live with S1 again - the
\* Notifier is invoked in sweep 1, not in sweep 2, the slot is empty after
\* sweep 3, and the Notifier is invoked again in sweep 4
C7_StreamScenario ==
    \A o \in TwitchOids :
        LET ob == streamObs[o]
        IN /\ ob.stage >= 1 => ob.log[1].invoked = 1
           /\ ob.stage >= 2 => ob.log[2].invoked = 0
           /\ ob.stage >= 3 => ob.log[3].invoked = 0 /\ ob.log[3].after = 0
           /\ ob.stage >= 4 => ob.log[4].invoked = 1 /\ ob.log[4].before = 0

C7_Witness ==
    /\ streamObs[1].stage = 4
    /\ streamObs[1].s1 = 1
    /\ streamObs[1].log[1].before = 0

\* C8: in every variant, once a sweep's query has succeeded and reported a
\* record's user as not live, the record's lastNotifiedStreamId is empty
C8_ClearedWhenNotLive ==
    \A o \in TwitchOids :
        (HasTwitchSub(o) /\ streamObs[o].lastRes = 0) => Slot(o) = 0

\* C9: with overlapping sweeps no (record, session, live period) is notified
\* twice, and no run clears a slot on a query result older than the one that
\* set it
C9_NoDuplicateNoStaleClear ==
    /\ \A m \in BagToSet(twitchSent) : CopiesIn(m, twitchSent) <= 1
    /\ ~staleClear

---------------------------------------------------------------------------
(* The Token Manager on its own: getTwitchAccessToken as any caller        *)
(* (getTwitchUserInfo, a sweep) invokes it, with the clock running         *)

IdleCall == [pc |-> "idle", startTok |-> 0]

\* a returned call: the value returned (0 = null), the clock and the stored
\* token's expiry at the return, whether the call made an exchange request,
\* and the access token stored when the call started (0 = none)
Returned(ret, tok, t, exchanged, startTok) ==
    [ret |-> ret, at |-> t, exp |-> tok.expires_at, exchanged |-> exchanged,
     startTok |-> startTok]

\* res.data.expires_in of the exchange, in units of 60 s
TokenExpiresIn == {1, 3}

\* getTwitchAccessToken() is called: a usable cached token is returned at
\* once, else the client-credentials exchange is requested
GetToken(k) ==
    /\ tokenCall[k].pc = "idle"
    /\ Len(tokenLog) < MaxCalls
    /\ IF TokenStale(twitchOAuthToken, now)
       THEN /\ tokenCall' = [tokenCall EXCEPT ![k] =
                  [pc |-> "exchange", startTok |-> twitchOAuthToken.access_token]]
            /\ UNCHANGED tokenLog
       ELSE /\ tokenLog' = Append(tokenLog,
                  Returned(twitchOAuthToken.access_token, twitchOAuthToken, now,
                           FALSE, twitchOAuthToken.access_token))
            /\ UNCHANGED tokenCall
    /\ UNCHANGED <<twitchOAuthToken, twitchDeviceCode, now, twitchDeviceAuthUrl,
                   grant, sweepTimer, ready, pollObs, exchangeFailed, storeSide, files, videoSide,
                   streamSide, pollSide, exitSide, webSide, leaseSide, diskSide>>

\* the exchange settles: rejected (logged, null is returned and the stored
\* token is left alone), or answered (token replaced, saved and returned)
GetTokenExchanged(k, e) ==
    /\ tokenCall[k].pc = "exchange"
    /\ IF e = 0
       THEN /\ tokenLog' = Append(tokenLog,
                  Returned(0, twitchOAuthToken, now, TRUE, tokenCall[k].startTok))
            /\ UNCHANGED <<twitchOAuthToken, files>>
       ELSE /\ twitchOAuthToken' = NewToken(twitchOAuthToken, now, e)
            /\ SaveData(subscriptions, twitchSubscriptions, twitchOAuthToken')
            /\ tokenLog' = Append(tokenLog,
                  Returned(twitchOAuthToken'.access_token, twitchOAuthToken', now,
                           TRUE, tokenCall[k].startTok))
    /\ tokenCall' = [tokenCall EXCEPT ![k] = IdleCall]
    /\ UNCHANGED <<twitchDeviceCode, now, twitchDeviceAuthUrl, grant, sweepTimer,
                   ready, pollObs, exchangeFailed, storeSide, videoSide, streamSide, pollSide, exitSide, webSide, leaseSide, diskSide>>

\* Date.now() advances by 60 s
Tick ==
    /\ now < MaxNow
    /\ now' = now + 1
    /\ UNCHANGED <<twitchOAuthToken, twitchDeviceCode, authSide, files, videoSide,
                   streamSide>>

\* loadData(): no token file, or a token saved by an earlier process
InitToken ==
    /\ InitVideoSide
    /\ InitStreamSide
    /\ twitchOAuthToken \in {NoToken} \cup
          {[access_token |-> 2, expires_at |-> e] : e \in TokenExpiresIn}
    /\ tokenFile = twitchOAuthToken
    /\ twitchDeviceCode = 0
    /\ twitchDeviceAuthUrl = 0
    /\ grant = <<>>
    /\ now = 0
    /\ sweepTimer = TRUE
    /\ ready = TRUE
    /\ tokenCall = <<IdleCall>>
    /\ tokenLog = <<>>
    /\ pollObs = NoPoll
    /\ exchangeFailed = FALSE
    /\ lastCmd = NoCmd
    /\ vsweep = <<>>
    /\ pollDone = NoPollDone
    /\ early = "none"
    /\ response = NoResponse
    /\ hub = NoHub
    /\ renewAt = 0
    /\ diskFault = NoFault
    /\ CounterIdle
    /\ loadObs = NoLoad

\* calls made one after the other
TokenNext ==
    \/ GetToken(1)
    \/ \E e \in {0} \cup TokenExpiresIn : GetTokenExchanged(1, e)
    \/ Tick

SpecToken == InitToken /\ [][TokenNext]_vars

\* C11: of two calls made one after the other, the first starting without a
\* token and returning one that is still usable when the second returns, the
\* first makes the only exchange request and both return the same access token
C11_OneExchangePerWindow ==
    \A i \in 1..(Len(tokenLog) - 1) :
        LET a == tokenLog[i]
            b == tokenLog[i + 1]
        IN (a.startTok = 0 /\ a.ret # 0 /\ b.at + Skew < a.exp)
              => (a.exchanged /\ ~b.exchanged /\ b.ret = a.ret)

C11_Witness ==
    /\ Len(tokenLog) >= 2
    /\ tokenLog[1].startTok = 0
    /\ tokenLog[1].ret # 0
    /\ tokenLog[2].at + Skew < tokenLog[1].exp
    /\ tokenLog[2].at > tokenLog[1].at
    /\ tokenLog[2].ret = tokenLog[1].ret

---------------------------------------------------------------------------
(* The Token Manager of the server variant: device authorization flow      *)

\* the access token of the next successful poll
PollToken(tok, t, e) == NewToken(tok, t, e)

\* what pollTwitchDeviceAuth returns for the upstream's answer
PollReturn(answer) == IF answer = "ok" THEN "true" ELSE "false"

\* the upstream's answer to a poll with the stored device code: the network
\* fails, or the code is pending, authorized or expired
PollAnswers(code) ==
    {"error"} \cup
    {CASE grant[code] = "pending" -> "pending"
       [] grant[code] = "authorized" -> "ok"
       [] OTHER -> "expired"}

\* return twitchOAuthToken?.access_token || null
SrvReturn(tok) == tok.access_token

\* if (twitchOAuthToken && twitchOAuthToken.expires_at > Date.now())
SrvTokenFresh(tok, t) == tok.access_token # 0 /\ tok.expires_at > t

\* getTwitchAccessToken() of the server is called: an unexpired token is
\* returned, an expired one too (nothing replaces it); without a token the
\* device flow is started, or polled when a device code is stored
SrvGetToken(k) ==
    /\ ready
    /\ tokenCall[k].pc = "idle"
    /\ Len(tokenLog) < MaxCalls
    /\ IF SrvTokenFresh(twitchOAuthToken, now) \/ twitchOAuthToken.access_token # 0
       THEN /\ tokenLog' = Append(tokenLog,
                  Returned(SrvReturn(twitchOAuthToken), twitchOAuthToken, now, FALSE,
                           twitchOAuthToken.access_token))
            /\ UNCHANGED tokenCall
       ELSE /\ tokenCall' = [tokenCall EXCEPT ![k] =
                  [pc |-> IF twitchDeviceCode = 0 THEN "initiate" ELSE "poll",
                   startTok |-> 0]]
            /\ UNCHANGED tokenLog
    /\ UNCHANGED <<twitchOAuthToken, twitchDeviceCode, now, twitchDeviceAuthUrl,
                   grant, sweepTimer, ready, pollObs, exchangeFailed, storeSide, files, videoSide,
                   streamSide, pollSide, exitSide, webSide, leaseSide, diskSide>>

\* initiateTwitchDeviceAuth settles: a device code and its verification URL
\* are stored, or the request failed (logged).  Called from
\* getTwitchAccessToken ("initiate"), which then returns the token if one is
\* there, or from the clientReady handler ("boot")
SrvInitiated(k, res) ==
    /\ tokenCall[k].pc \in {"initiate", "boot"}
    /\ IF res = "ok"
       THEN /\ grant' = Append(grant, "pending")
            /\ twitchDeviceCode' = Len(grant')
            /\ twitchDeviceAuthUrl' = Len(grant')
            /\ pollObs' = [pollObs EXCEPT !.last = "none"]
       ELSE UNCHANGED <<grant, twitchDeviceCode, twitchDeviceAuthUrl, pollObs>>
    /\ tokenLog' = IF tokenCall[k].pc = "initiate"
                   THEN Append(tokenLog, Returned(SrvReturn(twitchOAuthToken),
                                   twitchOAuthToken, now, FALSE, tokenCall[k].startTok))
                   ELSE tokenLog
    /\ tokenCall' = [tokenCall EXCEPT ![k] = IdleCall]
    /\ UNCHANGED <<twitchOAuthToken, now, sweepTimer, ready, exchangeFailed, storeSide, files,
                   videoSide, streamSide, pollSide, exitSide, webSide, leaseSide, diskSide>>

\* pollTwitchDeviceAuth settles: the token is stored and saved, or the poll
\* is answered authorization_pending, or fails otherwise
SrvPolled(k, answer, e) ==
    /\ tokenCall[k].pc = "poll"
    /\ answer \in PollAnswers(twitchDeviceCode)
    /\ IF answer = "ok"
       THEN /\ twitchOAuthToken' = PollToken(twitchOAuthToken, now, e)
            /\ saveSubscriptions(subscriptions, twitchSubscriptions, twitchOAuthToken')
       ELSE UNCHANGED <<twitchOAuthToken, files>>
    /\ pollObs' =
          IF answer = "pending" THEN [pollObs EXCEPT !.pending = PollReturn(answer),
                                                     !.last = "pending"]
          ELSE IF answer = "ok" THEN [pollObs EXCEPT !.last = "ok"]
          ELSE [pollObs EXCEPT !.hard = PollReturn(answer), !.last = "hard"]
    /\ tokenLog' = Append(tokenLog,
          Returned(SrvReturn(twitchOAuthToken'), twitchOAuthToken', now,
                   answer = "ok", tokenCall[k].startTok))
    /\ tokenCall' = [tokenCall EXCEPT ![k] = IdleCall]
    /\ UNCHANGED <<twitchDeviceCode, twitchDeviceAuthUrl, grant, now, sweepTimer,
                   ready, exchangeFailed, storeSide, videoSide, streamSide, pollSide, exitSide, webSide, leaseSide, diskSide>>

\* upstream: the human authorizes the device code, or the code expires
Authorize(code) ==
    /\ code \in DOMAIN grant
    /\ grant[code] = "pending"
    /\ grant' = [grant EXCEPT ![code] = "authorized"]
    /\ UNCHANGED <<twitchOAuthToken, twitchDeviceCode, now, twitchDeviceAuthUrl,
                   sweepTimer, ready, tokenCall, tokenLog, pollObs, exchangeFailed, storeSide,
                   files, videoSide, streamSide, pollSide, exitSide, webSide, leaseSide, diskSide>>

ExpireCode(code) ==
    /\ code \in DOMAIN grant
    /\ grant[code] = "pending"
    /\ grant' = [grant EXCEPT ![code] = "expired"]
    /\ UNCHANGED <<twitchOAuthToken, twitchDeviceCode, now, twitchDeviceAuthUrl,
                   sweepTimer, ready, tokenCall, tokenLog, pollObs, exchangeFailed, storeSide,
                   files, videoSide, streamSide, pollSide, exitSide, webSide, leaseSide, diskSide>>

\* the clientReady handler: with a token the stream sweep interval is
\* registered, without one the device flow is started and no interval is set
SrvReady ==
    /\ ~ready
    /\ ready' = TRUE
    /\ IF twitchOAuthToken.access_token # 0
       THEN /\ sweepTimer' = TRUE
            /\ UNCHANGED tokenCall
       ELSE /\ tokenCall' = [tokenCall EXCEPT ![2] = [pc |-> "boot", startTok |-> 0]]
            /\ UNCHANGED sweepTimer
    /\ UNCHANGED <<twitchOAuthToken, twitchDeviceCode, now, twitchDeviceAuthUrl,
                   grant, tokenLog, pollObs, exchangeFailed, storeSide, files, videoSide,
                   streamSide, pollSide, exitSide, webSide, leaseSide, diskSide>>

\* loadSubscriptions(): no token file, or a token saved by an earlier process
InitSrvToken ==
    /\ InitVideoSide
    /\ InitStreamSide
    /\ twitchOAuthToken \in {NoToken} \cup
          {[access_token |-> 2, expires_at |-> e] : e \in TokenExpiresIn}
    /\ tokenFile = twitchOAuthToken
    /\ twitchDeviceCode = 0
    /\ twitchDeviceAuthUrl = 0
    /\ grant = <<>>
    /\ now = 0
    /\ sweepTimer = FALSE
    /\ ready = FALSE
    /\ tokenCall = <<IdleCall, IdleCall>>
    /\ tokenLog = <<>>
    /\ pollObs = NoPoll
    /\ exchangeFailed = FALSE
    /\ lastCmd = NoCmd
    /\ vsweep = <<>>
    /\ pollDone = NoPollDone
    /\ early = "none"
    /\ response = NoResponse
    /\ hub = NoHub
    /\ renewAt = 0
    /\ diskFault = NoFault
    /\ CounterIdle
    /\ loadObs = NoLoad

SrvTokenNext ==
    \/ SrvReady
    \/ SrvGetToken(1)
    \/ \E k \in 1..2, res \in {"ok", "throw"} : SrvInitiated(k, res)
    \/ \E answer \in {"error", "pending", "ok", "expired"}, e \in TokenExpiresIn :
          SrvPolled(1, answer, e)
    \/ \E code \in DOMAIN grant : Authorize(code)
    \/ \E code \in DOMAIN grant : ExpireCode(code)
    \/ Tick

SpecSrvToken == InitSrvToken /\ [][SrvTokenNext]_vars

\* C12: in both variants a call never returns the access token of a stored
\* token that is within 60 s of its expiry or past it, unless the call has
\* just obtained that token
C12_ReturnedTokenUsable ==
    \A i \in DOMAIN tokenLog :
        (tokenLog[i].ret # 0 /\ ~tokenLog[i].exchanged)
            => tokenLog[i].at + Skew < tokenLog[i].exp

\* C13: the value pollTwitchDeviceAuth returns while the upstream answers
\* authorization_pending differs from the value it returns on a hard error
C13_PendingDistinguishable ==
    (pollObs.pending # "none" /\ pollObs.hard # "none")
        => pollObs.pending # pollObs.hard

\* C14: once a poll has obtained a token or failed with a hard error, the
\* stored device code and verification URL are discarded
C14_DeviceStateDiscarded ==
    pollObs.last \in {"ok", "hard"}
        => (twitchDeviceCode = 0 /\ twitchDeviceAuthUrl = 0)

\* C15: a process started without a stored token still has its stream sweep
\* timer registered once the bot is ready
C15_SweepTimerRegistered == ready => sweepTimer

\* C16: a sweep whose token exchange fails returns without a query, a
\* notification or a change of any record, token or file, and a timer tick
\* that finds no token requests the exchange again
C16_FailedExchangeSkipsSweep ==
    [][\A run \in DOMAIN sweep :
          /\ (sweep[run].pc = "exchange" /\ sweep'[run].pc # "exchange"
                 /\ twitchOAuthToken' = twitchOAuthToken)
                => /\ sweep'[run].pc = "idle"
                   /\ twitchSent' = twitchSent
                   /\ twitchSubscriptions' = twitchSubscriptions
                   /\ files' = files
          /\ (sweep[run].pc = "idle" /\ sweep'[run].pc # "idle"
                 /\ twitchOAuthToken = NoToken)
                => sweep'[run].pc = "exchange"]_vars

C16_Witness ==
    /\ exchangeFailed
    /\ twitchOAuthToken = NoToken
    /\ sweep[1].pc = "exchange"
    /\ \E u \in Users : upstream[u] # 0

---------------------------------------------------------------------------
(* The Subscription Store: subscribe and unsubscribe commands *)

StoreDests == {"D1", "D2"}

\* the (source id, destination id) pair of each record of a collection
VideoPairs(subs) ==
    [i \in DOMAIN subs |-> <<subs[i].channelId, subs[i].discordChannelId>>]
TwitchPairs(tsubs) ==
    [i \in DOMAIN tsubs |-> <<tsubs[i].twitchUserId, tsubs[i].discordChannelId>>]

\* array.splice(index, 1)
SpliceFrom(s, index) == SubSeq(s, 1, index - 1)
Splice(s, index) == SubSeq(s, 1, index - 1) \o SubSeq(s, index + 1, Len(s))

\* an identity for a new stream record object: one that no record of the
\* array and no run in flight refers to
FreshTwitchOid ==
    CHOOSE o \in TwitchOids :
        /\ \A i \in DOMAIN twitchSubscriptions : twitchSubscriptions[i].oid # o
        /\ \A run \in DOMAIN sweep : sweep[run].sub # o
        /\ \A q \in TwitchOids :
              (q < o) => \/ \E i \in DOMAIN twitchSubscriptions :
                               twitchSubscriptions[i].oid = q
                         \/ \E run \in DOMAIN sweep : sweep[run].sub = q

\* messageCreate, command 'unsub': findIndex on channel id and destination;
\* a match is spliced out and the data saved, no match does nothing
CmdUnsub(c, d) ==
    LET index == FindFrom(VideoPairs(subscriptions), 1, {<<c, d>>})
    IN /\ IF index # 0
          THEN /\ subscriptions' = Splice(subscriptions, index)
               /\ SaveData(subscriptions', twitchSubscriptions, twitchOAuthToken)
          ELSE UNCHANGED <<subscriptions, files>>
       /\ lastCmd' = [cmd |-> "unsub", src |-> c, dest |-> d, found |-> index # 0,
                      n |-> 1 - lastCmd.n]
       /\ UNCHANGED <<webhook, published, nextOid, sent, ledgerLog, scenario, feedRun,
                      streamSide, twitchOAuthToken, twitchDeviceCode, now, callSide,
                      exchangeFailed, pollSide, exitSide, webSide, leaseSide, diskSide>>

\* messageCreate, command 'tsub', after getTwitchUserInfo found the user:
\* twitchSubscriptions.push(...); saveData()
CmdTsub(u, d) ==
    /\ Len(twitchSubscriptions) < MaxTwitchSubs
    /\ twitchSubscriptions' =
          Append(twitchSubscriptions, TwitchSub(FreshTwitchOid, u, d, 0))
    /\ SaveData(subscriptions, twitchSubscriptions', twitchOAuthToken)
    /\ UNCHANGED <<sweep, upstream, period, twitchSent, streamObs, staleClear,
                   videoSide, tokenSide>>

\* messageCreate, command 'tunsub': findIndex on user name and destination
CmdTunsub(u, d) ==
    LET index == FindFrom(TwitchPairs(twitchSubscriptions), 1, {<<u, d>>})
    IN /\ IF index # 0
          THEN /\ twitchSubscriptions' = Splice(twitchSubscriptions, index)
               /\ SaveData(subscriptions, twitchSubscriptions', twitchOAuthToken)
          ELSE UNCHANGED <<twitchSubscriptions, files>>
       /\ lastCmd' = [cmd |-> "tunsub", src |-> u, dest |-> d, found |-> index # 0,
                      n |-> 1 - lastCmd.n]
       /\ UNCHANGED <<sweep, upstream, period, twitchSent, streamObs, staleClear,
                      videoSide, twitchOAuthToken, twitchDeviceCode, now, callSide,
                      exchangeFailed, pollSide, exitSide, webSide, leaseSide, diskSide>>

\* loadData() of a fresh install
InitStore == InitVideoSide /\ InitStreamSide /\ InitTokenSide

StoreNext ==
    \/ \E ch \in Channels, d \in StoreDests : CmdSub(ch, d)
    \/ \E ch \in Channels, d \in StoreDests : CmdUnsub(ch, d)
    \/ \E u \in Users, d \in StoreDests : CmdTsub(u, d)
    \/ \E u \in Users, d \in StoreDests : CmdTunsub(u, d)

SpecStore == InitStore /\ [][StoreNext]_vars

\* C17: no two records of the video collection, and no two of the stream
\* collection, have the same (source id, destination id) pair
C17_NoDuplicatePairs ==
    /\ \A i, j \in DOMAIN subscriptions :
          i # j => VideoPairs(subscriptions)[i] # VideoPairs(subscriptions)[j]
    /\ \A i, j \in DOMAIN twitchSubscriptions :
          i # j => TwitchPairs(twitchSubscriptions)[i] # TwitchPairs(twitchSubscriptions)[j]

\* the sequence t is the sequence s without its element at index i
IsWithout(t, s, i) ==
    /\ Len(t) = Len(s) - 1
    /\ \A k \in DOMAIN t : t[k] = IF k < i THEN s[k] ELSE s[k + 1]

\* C18: an unsubscribe of a pair that is not in the store changes neither
\* collection nor any file; an unsubscribe of a pair that is present removes
\* one record with that pair, keeps every other record as it is and saves
C18_UnsubscribeFrame ==
    [][lastCmd' # lastCmd =>
          LET pair == <<lastCmd'.src, lastCmd'.dest>>
              video == lastCmd'.cmd = "unsub"
              old == IF video THEN subscriptions ELSE twitchSubscriptions
              new == IF video THEN subscriptions' ELSE twitchSubscriptions'
              pairs == IF video THEN VideoPairs(old) ELSE TwitchPairs(old)
          IN /\ IF video THEN twitchSubscriptions' = twitchSubscriptions
                         ELSE subscriptions' = subscriptions
             /\ IF \E i \in DOMAIN old : pairs[i] = pair
                THEN /\ \E i \in DOMAIN old : pairs[i] = pair /\ IsWithout(new, old, i)
                     /\ subsFile' = Snapshot(subscriptions')
                     /\ twitchSubsFile' = Snapshot(twitchSubscriptions')
                ELSE new = old /\ files' = files]_vars

\* a record was removed while a record for the same source in another
\* destination stays
C18_Witness ==
    /\ lastCmd.cmd = "unsub"
    /\ lastCmd.found
    /\ \E i \in DOMAIN subscriptions :
          /\ subscriptions[i].channelId = lastCmd.src
          /\ subscriptions[i].discordChannelId # lastCmd.dest
    /\ subsFile = Snapshot(subscriptions)

\* C19: whenever another callback can run, the persisted video and stream
\* collections equal the collections in memory
C19_PersistedEqualsMemory ==
    /\ subsFile = Snapshot(subscriptions)
    /\ twitchSubsFile = Snapshot(twitchSubscriptions)

---------------------------------------------------------------------------
(* Video subscriptions in the polling variant: checkForNewVideos *)

PollChannels == {"C1", "C2"}
Playlists == {"P1", "P2"}

\* channel.contentDetails.relatedPlaylists.uploads
PlaylistOf == [ch \in PollChannels |-> IF ch = "C1" THEN "P1" ELSE "P2"]

\* a record of the polling variant; uploadsPlaylistId "" when it has none yet
PollSub(o, ch, d, last, pl) ==
    [oid |-> o, channelId |-> ch, discordChannelId |-> d,
     lastPostedVideoId |-> last, uploadsPlaylistId |-> pl]

\* videos[0] of a playlist answer; id 0 when the playlist has no item
NoVideo == [id |-> 0, age |-> 0]
PollAges == {2, DayMinutes}
Videos == {NoVideo} \cup {[id |-> v, age |-> a] : v \in 1..MaxVideos, a \in PollAges}

\* Date.now() - publishedAt.getTime() < 24 * 60 * 60 * 1000
IsRecent(video) == video.age < DayMinutes

\* new Map()
EmptyCache == [pl \in Playlists |-> [has |-> FALSE, video |-> NoVideo]]

\* observers of a run: the playlistItems requests issued and answered per
\* playlist, and the item each record was compared with (Uncompared: none)
NoRequests == [pl \in Playlists |-> 0]
Uncompared == [id |-> -1, age |-> 0]
NoCompared == [o \in Oids \cup (1..MaxPollSubs) |-> Uncompared]

IdlePoll == [pc |-> "idle", i |-> 0, sub |-> 0, video |-> NoVideo,
             cache |-> EmptyCache, changed |-> FALSE, visited |-> {},
             failed |-> {}, notified |-> {}, asked |-> NoRequests,
             got |-> NoRequests, compared |-> NoCompared]

\* the loop state: the array, videoCache, dataChanged, and for the observer
\* the records visited, failed and notified by this run
LoopState(run) ==
    [subs |-> subscriptions, cache |-> vsweep[run].cache,
     changed |-> vsweep[run].changed, visited |-> vsweep[run].visited,
     failed |-> vsweep[run].failed, notified |-> vsweep[run].notified,
     asked |-> vsweep[run].asked, got |-> vsweep[run].got,
     compared |-> vsweep[run].compared]

\* the run suspends at an await (or ends) while at record i
Suspend(st, pc, i, video) ==
    [subs |-> st.subs, cache |-> st.cache, changed |-> st.changed,
     visited |-> st.visited, failed |-> st.failed, notified |-> st.notified,
     asked |-> st.asked, got |-> st.got, compared |-> st.compared,
     pc |-> pc, i |-> i, video |-> video]

RECURSIVE PollFrom(_, _)

\* if (video) ... : a latest video other than the bookmarked one is announced
\* when recent (await fetch), else only bookmarked; then the next record
VideoStep(st0, i, video) ==
    LET r == st0.subs[i]
        st == [st0 EXCEPT !.compared[r.oid] = video]
    IN IF video.id # 0 /\ video.id # r.lastPostedVideoId
       THEN IF IsRecent(video)
            THEN Suspend(st, "vfetch", i, video)
            ELSE PollFrom([st EXCEPT !.subs[i].lastPostedVideoId = video.id,
                                     !.changed = TRUE], i + 1)
       ELSE PollFrom(st, i + 1)

\* videoCache.has(sub.uploadsPlaylistId): the cached video, or await the
\* playlistItems request
CacheStepNoCache(st, i) ==
    Suspend([st EXCEPT !.asked[st.subs[i].uploadsPlaylistId] = @ + 1], "items", i,
            NoVideo)
CacheStep(st, i) ==
    LET pl == st.subs[i].uploadsPlaylistId
    IN IF st.cache[pl].has
       THEN VideoStep(st, i, st.cache[pl].video)
       ELSE Suspend([st EXCEPT !.asked[pl] = @ + 1], "items", i, NoVideo)

\* for (const sub of subscriptions), from index i up to the next await
PollFrom(st, i) ==
    IF i > Len(st.subs)
    THEN Suspend(st, "end", 0, NoVideo)
    ELSE LET st1 == [st EXCEPT !.visited = @ \cup {st.subs[i].oid}]
         IN IF st1.subs[i].uploadsPlaylistId = ""
            THEN Suspend(st1, "channels", i, NoVideo)
            ELSE CacheStep(st1, i)

\* catch (e) { logError(...) } inside the loop body: on to the next record
OnErrorAbort(st, i) ==
    Suspend([st EXCEPT !.failed = @ \cup {st.subs[i].oid}], "end", 0, NoVideo)
OnError(st, i) ==
    PollFrom([st EXCEPT !.failed = @ \cup {st.subs[i].oid}], i + 1)

\* the run goes on as res says; at the end of the loop the data is saved if
\* dataChanged
PollApply(run, res) ==
    /\ subscriptions' = res.subs
    /\ IF res.pc = "end"
       THEN /\ vsweep' = [vsweep EXCEPT ![run] = IdlePoll]
            /\ pollDone' = [done |-> TRUE, n |-> pollDone.n + 1,
                            store |-> {res.subs[k].oid : k \in DOMAIN res.subs},
                            visited |-> res.visited, failed |-> res.failed,
                            notified |-> res.notified]
            /\ IF res.changed
               THEN SaveData(res.subs, twitchSubscriptions, twitchOAuthToken)
               ELSE UNCHANGED files
       ELSE /\ vsweep' = [vsweep EXCEPT ![run] =
                  [pc |-> res.pc, i |-> res.i, sub |-> res.subs[res.i].oid,
                   video |-> res.video, cache |-> res.cache, changed |-> res.changed,
                   visited |-> res.visited, failed |-> res.failed,
                   notified |-> res.notified, asked |-> res.asked,
                   got |-> res.got, compared |-> res.compared]]
            /\ UNCHANGED <<pollDone, files>>

\* what checkForNewVideos never touches
pollFrame == <<webhook, published, nextOid, ledgerLog, scenario, feedRun,
               streamSide, twitchOAuthToken, twitchDeviceCode, now, callSide,
               exchangeFailed, storeSide, exitSide, webSide, leaseSide, diskSide>>

\* setInterval(checkForNewVideos, YOUTUBE_CHECK_INTERVAL) fires
PollTimerFire(run) ==
    /\ vsweep[run].pc = "idle"
    /\ pollDone.n < MaxSweeps
    /\ PollApply(run, PollFrom([LoopState(run) EXCEPT !.cache = EmptyCache,
                                                      !.asked = NoRequests,
                                                      !.got = NoRequests,
                                                      !.compared = NoCompared], 1))
    /\ UNCHANGED <<sent, pollFrame>>

\* the channels request for a record without a playlist id settles: rejected
\* (caught), answered without the channel (continue), or answered with it
\* (the playlist id is stored on the record, dataChanged)
ChannelsGot(run, res) ==
    LET st == LoopState(run)
        i == vsweep[run].i
        o == vsweep[run].sub
        SetPl == [r \in Range(st.subs) |->
                     [r EXCEPT !.uploadsPlaylistId = PlaylistOf[r.channelId]]]
    IN /\ vsweep[run].pc = "channels"
       /\ PollApply(run,
             CASE res = "throw" -> OnError(st, i)
               [] res = "none" -> PollFrom(st, i + 1)
               [] OTHER -> CacheStep([st EXCEPT !.subs = UpdateSub(st.subs, o, SetPl),
                                                !.changed = TRUE], i))
       /\ UNCHANGED <<sent, pollFrame>>

\* the playlistItems request settles: rejected (caught), or answered; the
\* newest item (or undefined) is cached for the run
ItemsGot(run, res, video) ==
    LET st == LoopState(run)
        i == vsweep[run].i
        pl == st.subs[i].uploadsPlaylistId
    IN /\ vsweep[run].pc = "items"
       /\ PollApply(run,
             IF res = "throw" THEN OnError(st, i)
             ELSE VideoStep([st EXCEPT !.cache[pl] = [has |-> TRUE, video |-> video],
                                       !.got[pl] = @ + 1],
                            i, video))
       /\ UNCHANGED <<sent, pollFrame>>

\* client.channels.fetch settles: rejected (caught), not a guild text
\* channel (nothing is done), or a text channel (await send)
VFetched(run, res) ==
    LET st == LoopState(run)
        i == vsweep[run].i
    IN /\ vsweep[run].pc = "vfetch"
       /\ IF res = "text"
          THEN /\ vsweep' = [vsweep EXCEPT ![run].pc = "vsend"]
               /\ UNCHANGED <<subscriptions, pollDone, files>>
          ELSE PollApply(run, IF res = "throw" THEN OnError(st, i)
                              ELSE PollFrom(st, i + 1))
       /\ UNCHANGED <<sent, pollFrame>>

\* channel.send settles: rejected (caught), or delivered (the video is
\* bookmarked on the record, dataChanged)
VSent(run, res) ==
    LET st == LoopState(run)
        i == vsweep[run].i
        o == vsweep[run].sub
        video == vsweep[run].video
        SetLast == [r \in Range(st.subs) |-> [r EXCEPT !.lastPostedVideoId = video.id]]
    IN /\ vsweep[run].pc = "vsend"
       /\ IF res = "ok"
          THEN /\ sent' = sent (+) SetToBag({[videoId |-> video.id, sub |-> o,
                                              age |-> video.age]})
               /\ PollApply(run,
                     PollFrom([st EXCEPT !.subs = UpdateSub(st.subs, o, SetLast),
                                         !.changed = TRUE,
                                         !.notified = @ \cup {o}], i + 1))
          ELSE /\ PollApply(run, OnError(st, i))
               /\ UNCHANGED sent
       /\ UNCHANGED pollFrame

ChannelsResults == {"throw", "none", "ok"}

\* loadData() of the polling variant: records with or without a playlist id
ChanOf(k) == IF k % 2 = 1 THEN "C1" ELSE "C2"

InitPoll ==
    /\ InitStreamSide
    /\ twitchOAuthToken = NoToken
    /\ tokenFile = NoToken
    /\ twitchDeviceCode = 0
    /\ twitchDeviceAuthUrl = 0
    /\ grant = <<>>
    /\ now = 0
    /\ sweepTimer = TRUE
    /\ ready = TRUE
    /\ tokenCall = <<>>
    /\ tokenLog = <<>>
    /\ pollObs = NoPoll
    /\ exchangeFailed = FALSE
    /\ lastCmd = NoCmd
    /\ early = "none"
    /\ response = NoResponse
    /\ hub = NoHub
    /\ renewAt = 0
    /\ diskFault = NoFault
    /\ CounterIdle
    /\ loadObs = NoLoad
    /\ vsweep = <<IdlePoll>>
    /\ pollDone = NoPollDone
    /\ webhook = <<>>
    /\ published = 0
    /\ sent = EmptyBag
    /\ ledgerLog = <<>>
    /\ scenario = NoScenario
    /\ feedRun = NoRun
    /\ \E n \in 1..MaxSubs, last \in 0..1, cached \in BOOLEAN :
          /\ subscriptions =
                [k \in 1..n |-> PollSub(k, ChanOf(k), "D1", IF k = 1 THEN last ELSE 0,
                                        IF cached THEN PlaylistOf[ChanOf(k)] ELSE "")]
          /\ nextOid = n + 1
    /\ subsFile = Snapshot(subscriptions)

PollSteps(run) ==
    \/ PollTimerFire(run)
    \/ \E res \in ChannelsResults : ChannelsGot(run, res)
    \/ \E res \in {"throw", "ok"}, video \in Videos : ItemsGot(run, res, video)
    \/ \E res \in FetchResults : VFetched(run, res)
    \/ \E res \in SendResults : VSent(run, res)

\* sweeps that never overlap
PollNext == PollSteps(1)

SpecPoll == InitPoll /\ [][PollNext]_vars

StreamSweepVisitsAll ==
    [][\A run \in DOMAIN sweep :
          (sweep[run].pc \in {"nfetch", "nsend"} /\ sweep'[run].pc = "idle")
             => \A k \in DOMAIN twitchSubscriptions' :
                   streamObs'[twitchSubscriptions'[k].oid].lastRes =
                      sweep[run].live[twitchSubscriptions'[k].twitchUserId].id]_vars

---------------------------------------------------------------------------
(* Transient upstream errors *)

\* the request a video sweep was awaiting for record o was rejected in this step
RejectedFor(run, o) ==
    /\ o \notin vsweep[run].failed
    /\ \/ o \in vsweep'[run].failed
       \/ pollDone'.n # pollDone.n /\ o \in pollDone'.failed

C21_VideoWitness ==
    /\ pollDone.done
    /\ 1 \in pollDone.failed
    /\ 1 \notin pollDone.notified
    /\ subscriptions[1].lastPostedVideoId = 1

---------------------------------------------------------------------------
(* The WebSub routes: app.get and app.post of /youtube-webhook *)

\* req.query['hub.challenge'] of a request
Challenges == {"", "c1"}

\* if (challenge) send(challenge) else send('Bot is awake.')
GetBodyStatic(challenge) == "Bot is awake."
GetBody(challenge) == IF challenge # "" THEN challenge ELSE "Bot is awake."

\* app.get('/youtube-webhook'): the whole handler
Get(challenge) ==
    /\ response' = [route |-> "GET", req |-> challenge, status |-> 200,
                    body |-> GetBody(challenge), n |-> 1 - response.n]
    /\ UNCHANGED <<videoSide, streamSide, tokenCore, exitSide, files>>

\* a channel id no record has: the hub delivers for ids the bot is not tracking
Untracked == "C9"

\* both routes next to the 'sub' command; deliveries are handled one after
\* another, GETs arrive at any time; the hub also delivers feeds whose entry
\* lacks a field and feeds of other channels
WebNext ==
    \/ \E c \in Channels, d \in Dests : CmdSub(c, d)
    \/ \E c \in Channels :
          published < MaxVideos /\ Upload(1, Feed(published + 1, c, 2))
    \/ \E v \in 1..published, c \in Channels : Redeliver(1, Feed(v, c, 2))
    \/ \E p \in {Malformed, Deleted, EmptyFeed, Partial, Feed(1, Untracked, 2)} :
          Redeliver(1, p)
    \/ HandlerSteps(1, FetchResults, SendResults)
    \/ \E challenge \in Challenges : Get(challenge)

SpecWeb == InitVideo /\ [][WebNext]_vars

\* C22: a GET is answered 200 with the challenge it carries as the body, or
\* with the static acknowledgement when it carries none, and answering it
\* changes no subscription, no token, no file and no delivery in flight
C22_HandshakeReadOnly ==
    [][/\ (response'.route = "GET") =>
            (/\ response'.status = 200
             /\ response'.body = IF response'.req # "" THEN response'.req
                                  ELSE "Bot is awake.")
       /\ (response'.n # response.n) =>
            (/\ response'.route = "GET"
             /\ UNCHANGED <<subscriptions, twitchSubscriptions, twitchOAuthToken,
                            files, webhook, sent, twitchSent>>)]_vars

\* the same challenge was answered a second time, verbatim, while a delivery
\* to a subscribed channel was in flight
C22_Witness ==
    /\ response.route = "GET"
    /\ response.n = 0
    /\ response.req = "c1"
    /\ response.body = "c1"
    /\ subscriptions # <<>>
    /\ \E h \in DOMAIN webhook : webhook[h].pc = "fetch"

\* handler h gets past its parse in this step
ParseStep(h) == webhook[h].pc = "parse" /\ webhook'[h].pc # "parse"

C24_IgnoredDeliveries ==
    [][\A h \in DOMAIN webhook :
          LET b == webhook[h].body
          IN (/\ ParseStep(h)
              /\ \/ b.kind = "deleted"
                 \/ /\ b.kind = "feed"
                    /\ b.entries # <<>>
                    /\ \A k \in DOMAIN subscriptions :
                          subscriptions[k].channelId # b.entries[1].channelId)
                => /\ webhook'[h] = IdleHandler
                   /\ UNCHANGED <<subscriptions, sent, files>>]_vars

\* a delivery for a channel nobody subscribed to has been ignored while the
\* store held a record of another channel, which holds a history
C24_Witness ==
    /\ early = "nosub"
    /\ \A h \in DOMAIN webhook : webhook[h].pc = "idle"
    /\ sent = EmptyBag
    /\ \E k \in DOMAIN subscriptions : subscriptions[k].postedVideos # <<>>

\* the same for a deleted-entry
C24_DeletedWitness ==
    /\ early = "deleted"
    /\ \E k \in DOMAIN subscriptions : subscriptions[k].postedVideos # <<>>

---------------------------------------------------------------------------
(* WebSub leases: subscribeToWebSub, the clientReady handler and its 4-day   *)
(* interval.  Time is in minutes and passes a day at a time; a request is    *)
(* answered by the hub before time passes.                                   *)

\* 'hub.lease_seconds': '432000' (5 days), and FOUR_DAYS_MS
LeaseTime == 5 * DayMinutes
SixDays == 6 * DayMinutes
FourDays == 4 * DayMinutes

\* subscriptions.forEach(sub => subscribeToWebSub(sub.channelId)): every call
\* runs up to its own await, so all the requests of the round are issued
RoundFirst(subs) == IF subs = <<>> THEN {} ELSE {subs[1].channelId}
Round(subs) == {subs[k].channelId : k \in DOMAIN subs}

\* the token manager's callers, but for the two flags of the clientReady handler
callFrame == <<twitchDeviceAuthUrl, grant, tokenCall, tokenLog, pollObs>>

\* what the lease model never touches
leaseFrame == <<webhook, published, sent, ledgerLog, scenario, feedRun, streamSide,
                twitchOAuthToken, twitchDeviceCode, callFrame, exchangeFailed,
                storeSide, pollSide, exitSide, webSide, diskSide>>

\* client.on('clientReady'): the stream sweep timer, one subscribe request per
\* record, and the 4-day interval
LeaseReady ==
    /\ ~ready
    /\ ready' = TRUE
    /\ sweepTimer' = TRUE
    /\ hub' = Issue(hub, Round(subscriptions))
    /\ renewAt' = now + FourDays
    /\ UNCHANGED <<subscriptions, nextOid, now, files, leaseFrame>>

\* the 4-day interval fires: one subscribe request per record
RenewFire ==
    /\ ready
    /\ now = renewAt
    /\ hub' = Issue(hub, Round(subscriptions))
    /\ renewAt' = renewAt + FourDays
    /\ UNCHANGED <<subscriptions, nextOid, now, files, ready, sweepTimer, leaseFrame>>

\* catch (e) { logError(`WebSub Subscribe (${channelId})`, e); }: only the
\* call whose request was rejected ends
OnRejectAll(req, ch) == {}
OnReject(req, ch) == req \ {ch}

\* the hub answers the request for channel ch: it grants the 5-day lease, or
\* rejects the request
HubAnswered(ch, res) ==
    /\ ch \in hub.req
    /\ hub' = IF res = "accept"
              THEN [hub EXCEPT !.req = @ \ {ch}, !.lease[ch] = now + LeaseTime,
                               !.last[ch] = "accept"]
              ELSE [hub EXCEPT !.req = OnReject(@, ch), !.last[ch] = "reject",
                               !.rejected = TRUE]
    /\ UNCHANGED <<subscriptions, nextOid, now, files, ready, sweepTimer, renewAt,
                   leaseFrame>>

\* a day passes, unless the interval is due or a request is in flight
LeaseTick ==
    /\ ready
    /\ hub.req = {}
    /\ now + DayMinutes <= renewAt
    /\ now + DayMinutes <= MaxDays * DayMinutes
    /\ now' = now + DayMinutes
    /\ UNCHANGED <<subscriptions, nextOid, files, ready, sweepTimer, hub, renewAt,
                   leaseFrame>>

\* loadData() found up to two records; the client is not ready yet
InitLease ==
    /\ InitStreamSide
    /\ twitchOAuthToken = NoToken
    /\ twitchDeviceCode = 0
    /\ tokenFile = NoToken
    /\ now = 0
    /\ sweepTimer = FALSE
    /\ ready = FALSE
    /\ InitNoCallers
    /\ webhook = [h \in 1..MaxHandlers |-> IdleHandler]
    /\ published = 0
    /\ sent = EmptyBag
    /\ ledgerLog = [o \in Oids |-> <<>>]
    /\ scenario = NoScenario
    /\ feedRun = NoRun
    /\ \E n \in 0..1 :
          /\ subscriptions = [k \in 1..n |-> NewVideoSub(k, "C1", "D1", 0)]
          /\ nextOid = n + 1
    /\ subsFile = Snapshot(subscriptions)

LeaseNext ==
    \/ LeaseReady
    \/ RenewFire
    \/ \E ch \in Topics, res \in {"accept", "reject"} : HubAnswered(ch, res)
    \/ LeaseTick
    \/ \E ch \in Topics, d \in Dests : ready /\ CmdSub(ch, d)
    \/ \E ch \in Topics, d \in Dests : ready /\ CmdUnsub(ch, d)

SpecLease == InitLease /\ [][LeaseNext]_vars

\* the channels of the records
Tracked == Round(subscriptions)

\* C25: at startup, and whenever the interval fires (every 4 days), a request
\* is issued for every tracked channel, and the 'sub' command issues one for
\* the channel it adds; while the hub has rejected no request, every tracked
\* channel whose request has been answered holds a lease that has not expired
C25_LeaseCoverage ==
    [][/\ (~ready /\ ready') => (Tracked \subseteq hub'.req /\ renewAt' = now + FourDays)
       /\ (renewAt # 0 /\ renewAt' # renewAt) =>
            (Tracked \subseteq hub'.req /\ renewAt' = renewAt + FourDays)
       /\ (Len(subscriptions') > Len(subscriptions)) =>
            (subscriptions'[Len(subscriptions')].channelId \in hub'.req)
       /\ (ready' /\ ~hub'.rejected) =>
            (/\ now' <= renewAt'
             /\ \A ch \in Round(subscriptions') :
                   ch \notin hub'.req => now' < hub'.lease[ch])]_vars

\* eight days after startup a channel loaded at startup and one added by
\* command hold leases, both renewed by the second round
C25_Witness ==
    /\ ready
    /\ ~hub.rejected
    /\ now = 8 * DayMinutes
    /\ renewAt = 12 * DayMinutes
    /\ Tracked = Topics
    /\ hub.req = {}
    /\ \A ch \in Topics : hub.lease[ch] = now + LeaseTime

\* C26: a round (startup or interval) issues a request for every tracked
\* channel, whatever the hub answered before; a rejected request ends only
\* its own call: the requests of the other channels stay in flight and can
\* still be granted
C26_RenewalIsolation ==
    [][/\ (renewAt' # renewAt) => (Tracked \subseteq hub'.req)
       /\ \A ch \in Topics :
            (ch \in hub.req /\ hub'.last[ch] = "reject" /\ hub.last[ch] # "reject")
               => /\ hub'.req = hub.req \ {ch}
                  /\ hub'.lease = hub.lease]_vars

\* in the renewal round of day 4 the request for C1 was rejected and the one
\* for C2 was granted
C26_Witness ==
    /\ Tracked = Topics
    /\ now = 4 * DayMinutes
    /\ renewAt = 8 * DayMinutes
    /\ hub.last["C1"] = "reject"
    /\ hub.last["C2"] = "accept"
    /\ hub.lease["C2"] = now + LeaseTime

---------------------------------------------------------------------------
(* The Notifier *)

\* C27: a delivery that fails (the destination cannot be fetched, or the send
\* throws) raises nothing into its caller: the stream sweep goes on to set the
\* slot, the push handler does not end in its catch, and the video sweep does
\* not enter the catch of the record
C27_NotifierNoPropagation ==
    [][/\ \A run \in DOMAIN sweep :
            (sweep[run].pc \in {"nfetch", "nsend"} /\ sweep'[run].pc \notin {"nfetch", "nsend"})
               => \E k \in DOMAIN twitchSubscriptions' :
                     /\ twitchSubscriptions'[k].oid = sweep[run].sub
                     /\ twitchSubscriptions'[k].lastNotifiedStreamId =
                           sweep[run].live[twitchSubscriptions'[k].twitchUserId].id
       /\ \A h \in DOMAIN webhook :
            (webhook[h].pc \in {"fetch", "send"} /\ webhook'[h].pc = "idle")
               => early' # "webhook"
       /\ \A v \in DOMAIN vsweep :
            (vsweep[v].pc \in {"vfetch", "vsend"} /\ vsweep'[v].pc # "vsend")
               => ~RejectedFor(v, vsweep[v].sub)]_vars

---------------------------------------------------------------------------
(* Failing snapshot writes *)

\* the disk starts to fail at the k-th write of saveData, or works again
DiskBreak(k, torn) ==
    /\ diskFault.at = 0
    /\ diskFault.n < MaxFaults
    /\ diskFault' = [at |-> k, torn |-> torn, n |-> diskFault.n + 1]
    /\ UNCHANGED <<videoSide, streamSide, twitchOAuthToken, twitchDeviceCode, now,
                   callSide, exchangeFailed, storeSide, pollSide, exitSide, webSide,
                   leaseSide, loadObs, counterSide, files>>

DiskHeal ==
    /\ diskFault.at # 0
    /\ diskFault' = [diskFault EXCEPT !.at = 0, !.torn = FALSE]
    /\ UNCHANGED <<videoSide, streamSide, twitchOAuthToken, twitchDeviceCode, now,
                   callSide, exchangeFailed, storeSide, pollSide, exitSide, webSide,
                   leaseSide, loadObs, counterSide, files>>

\* the commands and the token exchange, each ending in saveData, on a disk
\* that fails now and then
SaveNext ==
    \/ \E ch \in Channels, d \in Dests : CmdSub(ch, d)
    \/ \E d \in Dests : CmdTsub("U1", d)
    \/ \E d \in Dests : CmdTunsub("U1", d)
    \/ GetToken(1)
    \/ \E e \in {0} \cup TokenExpiresIn : GetTokenExchanged(1, e)
    \/ \E k \in 1..3, torn \in BOOLEAN : DiskBreak(k, torn)
    \/ DiskHeal

SpecSave == InitToken /\ [][SaveNext]_vars

\* a step of an operation that mutates a collection or the token and then
\* calls saveData
SaveStep ==
    \/ nextOid' # nextOid
    \/ lastCmd' # lastCmd /\ lastCmd'.found
    \/ Len(twitchSubscriptions') > Len(twitchSubscriptions)
    \/ twitchOAuthToken' # twitchOAuthToken

\* C28: an operation whose saveData fails still completes with its mutation in
\* memory ('sub' goes on to issue the hub request, the exchange returns the new
\* token); a saveData none of whose writes fails leaves all three files equal
\* to memory, whatever failed before
C28_FailedWriteNotFatal ==
    [][/\ (nextOid' # nextOid) =>
            (/\ Len(subscriptions') = Len(subscriptions) + 1
             /\ subscriptions'[Len(subscriptions')].channelId \in hub'.req)
       /\ (twitchOAuthToken' # twitchOAuthToken) =>
            (/\ tokenLog' # tokenLog
             /\ tokenLog'[Len(tokenLog')].ret = twitchOAuthToken'.access_token)
       /\ (SaveStep /\ diskFault.at = 0) =>
            (/\ subsFile' = Snapshot(subscriptions')
             /\ twitchSubsFile' = Snapshot(twitchSubscriptions')
             /\ tokenFile' = twitchOAuthToken')]_vars

\* a saveData failed at its second write: the stream file is cut short and the
\* token file was not reached, while memory holds the new record and the token
C28_Witness ==
    /\ diskFault.at = 2
    /\ twitchSubsFile = Corrupt
    /\ twitchSubscriptions # <<>>
    /\ tokenFile = NoToken
    /\ twitchOAuthToken # NoToken

\* the disk has failed and works again, and all three files equal memory
C28_RecoveredWitness ==
    /\ diskFault.at = 0
    /\ diskFault.n > 0
    /\ subscriptions # <<>>
    /\ twitchSubscriptions # <<>>
    /\ twitchOAuthToken # NoToken
    /\ subsFile = Snapshot(subscriptions)
    /\ twitchSubsFile = Snapshot(twitchSubscriptions)
    /\ tokenFile = twitchOAuthToken

----------------------------------------------------------------------------
(* Loading the data files at startup *)

\* JSON.parse of a data file's text: the records, numbered in file order
Parsed1(r, o) == [f \in (DOMAIN r) \cup {"oid"} |-> IF f = "oid" THEN o ELSE r[f]]
ParseFile(file) == [i \in DOMAIN file |-> Parsed1(file[i], i)]

\* data files a previous run, or an interrupted write, can have left behind;
\* <<>> and NoToken stand for a file that does not exist
SubsFiles == {<<>>, Snapshot(<<NewVideoSub(1, "C1", "D1", 1)>>), Corrupt}
TwitchSubsFiles == {<<>>, Snapshot(<<TwitchSub(1, "U1", "D1", 0)>>), Corrupt}
TokenFiles == {NoToken, [access_token |-> 2, expires_at |-> 3], CorruptToken}

\* loadData(): the three reads stand in one try, so the first JSON.parse that
\* throws ends the function; ReadsN tells whether read N is reached and returns
Reads1(sf) == sf # <<>> /\ sf # Corrupt
Reads2(sf, tf) == sf # Corrupt /\ tf # <<>> /\ tf # Corrupt
Reads3(sf, tf, kf) ==
    sf # Corrupt /\ tf # Corrupt /\ kf # NoToken /\ kf # CorruptToken

\* what loadData did with a file: "missing", "corrupt", "loaded", or
\* "skipped" for a file that parses but was never read
LoadStatus(file, none, bad, read) ==
    IF file = none THEN "missing"
    ELSE IF file = bad THEN "corrupt"
    ELSE IF read THEN "loaded" ELSE "skipped"

InitLoad ==
    /\ webhook = [h \in 1..MaxHandlers |-> IdleHandler]
    /\ published = 1
    /\ sent = EmptyBag
    /\ ledgerLog = [o \in Oids |-> <<>>]
    /\ scenario = NoScenario
    /\ feedRun = NoRun
    /\ sweep = <<>>
    /\ upstream = <<>>
    /\ period = <<>>
    /\ twitchSent = EmptyBag
    /\ streamObs = <<>>
    /\ staleClear = FALSE
    /\ twitchDeviceCode = 0
    /\ twitchDeviceAuthUrl = 0
    /\ grant = <<>>
    /\ now = 0
    /\ sweepTimer = TRUE
    /\ ready = TRUE
    /\ tokenCall = <<IdleCall>>
    /\ tokenLog = <<>>
    /\ pollObs = NoPoll
    /\ exchangeFailed = FALSE
    /\ lastCmd = NoCmd
    /\ vsweep = <<>>
    /\ pollDone = NoPollDone
    /\ early = "none"
    /\ response = NoResponse
    /\ hub = NoHub
    /\ renewAt = 0
    /\ diskFault = NoFault
    /\ CounterIdle
    /\ \E sf \in SubsFiles, tf \in TwitchSubsFiles, kf \in TokenFiles :
          /\ subsFile = sf
          /\ twitchSubsFile = tf
          /\ tokenFile = kf
          /\ subscriptions = IF Reads1(sf) THEN ParseFile(sf) ELSE <<>>
          /\ twitchSubscriptions = IF Reads2(sf, tf) THEN ParseFile(tf) ELSE <<>>
          /\ twitchOAuthToken = IF Reads3(sf, tf, kf) THEN kf ELSE NoToken
          /\ loadObs = [subs |-> LoadStatus(sf, <<>>, Corrupt, Reads1(sf)),
                        tsubs |-> LoadStatus(tf, <<>>, Corrupt, Reads2(sf, tf)),
                        token |-> LoadStatus(kf, NoToken, CorruptToken,
                                             Reads3(sf, tf, kf))]
    /\ nextOid = Len(subscriptions) + 1

\* the commands and the token exchange after loadData(), on a working disk
LoadNext ==
    \/ \E ch \in Channels, d \in Dests : CmdSub(ch, d)
    \/ \E ch \in Channels, d \in Dests : CmdUnsub(ch, d)
    \/ \E d \in Dests : CmdTsub("U1", d)
    \/ \E d \in Dests : CmdTunsub("U1", d)
    \/ GetToken(1)
    \/ \E e \in TokenExpiresIn : GetTokenExchanged(1, e)

SpecLoad == InitLoad /\ [][LoadNext]_vars

\* C29: a data file that parses is loaded whatever state the other two files
\* are in: no file is left unread because another file failed to parse
C29_IndependentLoad ==
    /\ loadObs.subs # "skipped"
    /\ loadObs.tsubs # "skipped"
    /\ loadObs.token # "skipped"

\* C29, the save side: a saveData never empties the file of a collection that
\* was left unread at startup
C29_NoHealthyFileEmptied ==
    [][/\ (loadObs.tsubs = "skipped" /\ twitchSubsFile # <<>>)
             => (twitchSubsFile' # <<>>)
       /\ (loadObs.token = "skipped" /\ tokenFile # NoToken)
             => (tokenFile' # NoToken)]_vars

\* the stream file parsed but was left unread, and a later command has
\* replaced its record with the empty collection
C29_LostWitness ==
    /\ loadObs.subs = "corrupt"
    /\ loadObs.tsubs = "skipped"
    /\ twitchSubsFile = <<>>
    /\ subscriptions # <<>>

----------------------------------------------------------------------------
(* Duplicates in the polling video sweep *)

\* C30: the polling sweep never announces to a record a video it has already
\* announced to it: when the latest item is A, then B, then A again on
\* successive sweeps, all recent, the third sweep sends nothing for A
C30_PollHistoryDedup ==
    \A m \in BagToSet(sent) : CopiesIn(m, sent) <= 1

\* three sweeps found video 1, then 2, then 1 again at the head of the
\* playlist of record 1 and announced each of them
C30_RepeatWitness ==
    /\ pollDone.n = 3
    /\ \E m \in BagToSet(sent) :
          m.sub = 1 /\ m.videoId = 1 /\ CopiesIn(m, sent) = 2
    /\ \E m \in BagToSet(sent) :
          m.sub = 1 /\ m.videoId = 2 /\ CopiesIn(m, sent) = 1

----------------------------------------------------------------------------
(* The bulk live-status query *)

\* if (twitchSubscriptions.length === 0) return;
TimerFireEmpty(run) ==
    /\ sweep[run].pc = "idle"
    /\ Len(twitchSubscriptions) = 0
    /\ early' = "nosubs"
    /\ UNCHANGED <<streamSide, videoSide, tokenCore, webSide, files>>

\* loadData(): no stream record, or up to MaxTwitchSubs records whose users
\* may be the same; the token on file is usable or not
InitBulk ==
    /\ InitVideoSide
    /\ InitTokenSide
    /\ \E n \in 0..MaxTwitchSubs, us \in [1..MaxTwitchSubs -> Users] :
          twitchSubscriptions = [k \in 1..n |-> TwitchSub(k, us[k], "D1", 0)]
    /\ twitchSubsFile = Snapshot(twitchSubscriptions)
    /\ sweep = [r \in 1..MaxRuns |-> IdleRun]
    /\ upstream = [u \in Users |-> 0]
    /\ period = [u \in Users |-> 0]
    /\ twitchSent = EmptyBag
    /\ streamObs = [o \in TwitchOids |-> NoObs]
    /\ staleClear = FALSE

BulkNext ==
    \/ TimerFireEmpty(1)
    \/ StreamSeqNext

SpecBulk == InitBulk /\ [][BulkNext]_vars

\* the run issues a live-status query in this step
IssuesQuery(run) ==
    /\ sweep'[run].pc \in {"query", "squery"}
    /\ \/ sweep[run].pc \notin {"query", "squery"}
       \/ sweep'[run].i # sweep[run].i

\* C31: a sweep that obtains a token issues a query; a run issues a query only
\* as the first request of its sweep after the token, and the user ids of that
\* query are exactly the distinct user ids of all stream records; on an empty
\* list the run returns without a query and without an exchange
C31_OneBulkQuery ==
    [][\A run \in DOMAIN sweep :
          /\ (IssuesQuery(run))
                => (/\ sweep[run].pc \in {"idle", "exchange"}
                    /\ sweep'[run].ids = QueryIds(twitchSubscriptions'))
          /\ (sweep[run].pc = "idle" /\ sweep'[run].pc \notin {"idle", "exchange"})
                => (IssuesQuery(run))
          /\ (/\ sweep[run].pc = "exchange"
              /\ sweep'[run].pc # "exchange"
              /\ twitchOAuthToken' # twitchOAuthToken)
                => (IssuesQuery(run))
          /\ (sweep[run].pc = "idle" /\ Len(twitchSubscriptions) = 0)
                => (sweep'[run].pc = "idle")]_vars

\* two records share one user and the query under way names that user once
C31_SharedWitness ==
    /\ Len(twitchSubscriptions) = 2
    /\ twitchSubscriptions[1].twitchUserId = twitchSubscriptions[2].twitchUserId
    /\ sweep[1].pc = "query"
    /\ sweep[1].ids = {twitchSubscriptions[1].twitchUserId}

\* a sweep found the list empty and returned
C31_EmptyWitness ==
    /\ Len(twitchSubscriptions) = 0
    /\ early = "nosubs"
    /\ tokenFile = NoToken

----------------------------------------------------------------------------
(* The per-sweep cache of the polling variant *)

\* loadData() of the polling variant: records that may follow the same
\* channel, all with or all without a playlist id
InitCache ==
    /\ InitStreamSide
    /\ twitchOAuthToken = NoToken
    /\ tokenFile = NoToken
    /\ twitchDeviceCode = 0
    /\ twitchDeviceAuthUrl = 0
    /\ grant = <<>>
    /\ now = 0
    /\ sweepTimer = TRUE
    /\ ready = TRUE
    /\ tokenCall = <<>>
    /\ tokenLog = <<>>
    /\ pollObs = NoPoll
    /\ exchangeFailed = FALSE
    /\ lastCmd = NoCmd
    /\ early = "none"
    /\ response = NoResponse
    /\ hub = NoHub
    /\ renewAt = 0
    /\ diskFault = NoFault
    /\ CounterIdle
    /\ loadObs = NoLoad
    /\ vsweep = <<IdlePoll>>
    /\ pollDone = NoPollDone
    /\ webhook = <<>>
    /\ published = 0
    /\ sent = EmptyBag
    /\ ledgerLog = <<>>
    /\ scenario = NoScenario
    /\ feedRun = NoRun
    /\ \E n \in 1..MaxPollSubs, chs \in [1..MaxPollSubs -> PollChannels],
          last \in 0..1, cached \in BOOLEAN :
          /\ subscriptions =
                [k \in 1..n |-> PollSub(k, chs[k], "D1", IF k = 1 THEN last ELSE 0,
                                        IF cached THEN PlaylistOf[chs[k]] ELSE "")]
          /\ nextOid = n + 1
    /\ subsFile = Snapshot(subscriptions)

\* sweeps that never overlap, with every outcome of the two upstream requests;
\* the destination is a text channel
CacheNext ==
    \/ pollDone.n < CacheSweeps /\ PollTimerFire(1)
    \/ \E res \in ChannelsResults : ChannelsGot(1, res)
    \/ \E res \in {"throw", "ok"}, video \in Videos : ItemsGot(1, res, video)
    \/ VFetched(1, "text")
    \/ \E res \in SendResults : VSent(1, res)

SpecCache == InitCache /\ [][CacheNext]_vars

\* the records that hold playlist pl
Sharing(subs, pl) == {k \in DOMAIN subs : subs[k].uploadsPlaylistId = pl}

\* all records sharing a playlist that were compared in this sweep were
\* compared with the same item
SameItem(run) ==
    \A j, k \in DOMAIN subscriptions :
        LET cj == vsweep[run].compared[subscriptions[j].oid]
            ck == vsweep[run].compared[subscriptions[k].oid]
        IN (/\ subscriptions[j].uploadsPlaylistId = subscriptions[k].uploadsPlaylistId
            /\ cj # Uncompared
            /\ ck # Uncompared) => cj = ck

\* C32 as stated: within one sweep at most one playlistItems request is
\* issued per playlist, and the records sharing a playlist are compared with
\* the same item
C32_OneFetchPerHandle ==
    \A run \in DOMAIN vsweep :
        /\ \A pl \in Playlists : vsweep[run].asked[pl] <= 1
        /\ SameItem(run)

\* C32 amended: within one sweep at most one playlistItems request is answered
\* per playlist, an answer without item included: once a playlist is cached no
\* further request is issued for it and its cached item stays; the records
\* sharing it are compared with the same item; a new sweep starts with an empty
\* cache; the channels request is issued only for a record without playlist
\* id, and a playlist id once set stays
C32_OneAnswerPerHandle ==
    [][\A run \in DOMAIN vsweep :
          /\ \A pl \in Playlists :
                /\ vsweep'[run].got[pl] <= 1
                /\ (vsweep[run].cache[pl].has /\ vsweep'[run].pc # "idle")
                      => (/\ vsweep'[run].asked[pl] = vsweep[run].asked[pl]
                          /\ vsweep'[run].cache[pl] = vsweep[run].cache[pl])
                /\ (vsweep[run].pc = "idle") => (~vsweep'[run].cache[pl].has)
          /\ SameItem(run)'
          /\ (/\ vsweep'[run].pc = "channels"
              /\ vsweep[run].pc # "channels" \/ vsweep'[run].i # vsweep[run].i)
                => (subscriptions[vsweep'[run].i].uploadsPlaylistId = "")
          /\ \A k \in DOMAIN subscriptions :
                (subscriptions[k].uploadsPlaylistId # "")
                   => (subscriptions'[k].uploadsPlaylistId =
                          subscriptions[k].uploadsPlaylistId)]_vars

\* records 1 and 2 share a playlist whose one request was answered without
\* item: both were compared with that answer and the sweep has gone on to
\* record 3, which holds another playlist
C32_Witness ==
    /\ Len(subscriptions) = 3
    /\ subscriptions[1].uploadsPlaylistId = subscriptions[2].uploadsPlaylistId
    /\ vsweep[1].pc = "items"
    /\ vsweep[1].i = 3
    /\ vsweep[1].asked[subscriptions[1].uploadsPlaylistId] = 1
    /\ vsweep[1].compared[1] = NoVideo
    /\ vsweep[1].compared[2] = NoVideo

\* the request for a shared playlist was rejected at record 1 and issued
\* again, for the same playlist, at record 2
C32_RetryWitness ==
    /\ Len(subscriptions) >= 2
    /\ subscriptions[1].uploadsPlaylistId = subscriptions[2].uploadsPlaylistId
    /\ vsweep[1].pc = "items"
    /\ vsweep[1].i = 2
    /\ 1 \in vsweep[1].failed
    /\ vsweep[1].asked[subscriptions[1].uploadsPlaylistId] = 2
    /\ vsweep[1].got[subscriptions[1].uploadsPlaylistId] = 0

----------------------------------------------------------------------------
(* Stream notifications that are not delivered *)

\* sweeps that never overlap and whose every notification fails: the
\* destination does not resolve to a text channel, or the send is rejected
FailingNext ==
    \/ Upstream(MaxPeriods)
    \/ TimerFire(1)
    \/ \E e \in {0} \cup ExpiresIn : Exchanged(1, e)
    \/ \E res \in {"throw", "ok"} : Queried(1, res)
    \/ \E res \in FetchResults : NFetched(1, res)
    \/ NSent(1, "throw")

SpecFailing == InitStream /\ [][FailingNext]_vars

\* notifyTwitchLive returns to the run in this step
NotifyDone(run) ==
    /\ sweep[run].pc \in {"nfetch", "nsend"}
    /\ sweep'[run] # sweep[run]
    /\ sweep'[run].pc # "nsend"

\* C33: when notifyTwitchLive returns, delivered or not, the record's
\* lastNotifiedStreamId is the session of the query result, in memory and in
\* the stream file; and no (record, session, live period) is handed to the
\* Notifier a second time by a later sweep
C33_SlotAdvancesRegardless ==
    [][/\ \A run \in DOMAIN sweep :
            (NotifyDone(run))
               => (\A k \in DOMAIN twitchSubscriptions' :
                      (twitchSubscriptions'[k].oid = sweep[run].sub)
                         => (/\ twitchSubscriptions'[k].lastNotifiedStreamId =
                                  sweep[run].live[twitchSubscriptions'[k].twitchUserId].id
                             /\ twitchSubsFile'[k].lastNotifiedStreamId =
                                  twitchSubscriptions'[k].lastNotifiedStreamId))
       /\ \A m \in BagToSet(twitchSent') : CopiesIn(m, twitchSent') <= 1]_vars

\* no notification is ever delivered, yet record 1 was handed to the Notifier
\* once for its session, holds that session in memory and on file, and the
\* next sweep found the user still live with it and did not notify
C33_Witness ==
    /\ streamObs[1].stage = 2
    /\ streamObs[1].log[2].invoked = 0
    /\ Slot(1) = streamObs[1].s1
    /\ twitchSubsFile[1].lastNotifiedStreamId = streamObs[1].s1
    /\ upstream[twitchSubscriptions[1].twitchUserId] = streamObs[1].s1
    /\ \E m \in BagToSet(twitchSent) : m.sub = 1 /\ m.session = streamObs[1].s1

----------------------------------------------------------------------------
(* Deliveries of the push handler that were not confirmed *)

\* C34: a handler that ends at the channel fetch or at the send without a
\* message delivered leaves every record, the history log and the files as
\* they were; and a delivery whose id is not in the history of the record it
\* matches goes on to the notification attempt
C34_UnconfirmedLeavesLedger ==
    [][\A h \in DOMAIN webhook :
          /\ (/\ webhook[h].pc \in {"fetch", "send"}
              /\ webhook'[h].pc = "idle"
              /\ sent' = sent)
                => (/\ subscriptions' = subscriptions
                    /\ ledgerLog' = ledgerLog
                    /\ UNCHANGED files)
          /\ (/\ webhook[h].pc = "parse"
              /\ webhook'[h] # webhook[h]
              /\ webhook[h].body.kind = "feed"
              /\ webhook[h].body.entries # <<>>)
                => (\A k \in DOMAIN subscriptions :
                       (/\ subscriptions[k].channelId =
                              webhook[h].body.entries[1].channelId
                        /\ \A j \in 1..(k - 1) :
                              subscriptions[j].channelId # subscriptions[k].channelId
                        /\ ~Includes(InitPostedVideos(subscriptions[k]).postedVideos,
                                     webhook[h].body.entries[1].videoId))
                          => (/\ webhook'[h].pc = "fetch"
                              /\ webhook'[h].sub = subscriptions[k].oid
                              /\ webhook'[h].videoId =
                                    webhook[h].body.entries[1].videoId))]_vars

\* the same id was delivered twice in a row to a record and neither attempt
\* was confirmed, the second one ending in a rejected send: the id is not in
\* the record's history, is not its last-notified id, and no message was sent
C34_Witness ==
    /\ feedRun.n >= 2
    /\ feedRun.class = "new"
    /\ early = "webhook"
    /\ sent = EmptyBag
    /\ \E k \in DOMAIN subscriptions :
          /\ subscriptions[k].oid = feedRun.sub
          /\ ~Includes(subscriptions[k].postedVideos, feedRun.videoId)
          /\ subscriptions[k].lastPostedVideoId # feedRun.videoId

----------------------------------------------------------------------------
(* One channel followed from several destinations *)

\* 'sub' commands from two Discord channels and deliveries handled one after
\* another, every one of them succeeding
FanNext ==
    \/ \E c \in Channels, d \in StoreDests : CmdSub(c, d)
    \/ \E c \in Channels :
          published < MaxVideos /\ Upload(1, Feed(published + 1, c, 2))
    \/ \E v \in 1..published, c \in Channels : Redeliver(1, Feed(v, c, 2))
    \/ HandlerSteps(1, {"text"}, {"ok"})

SpecFan == InitVideo /\ [][FanNext]_vars

\* C35: when a handler has delivered a video for one record, every record
\* that follows the same channel has been run through the ledger: each holds
\* the video in its history
C35_AllSubscribersNotified ==
    [][\A h \in DOMAIN webhook :
          (webhook[h].pc = "send" /\ webhook'[h].pc = "idle" /\ sent' # sent)
             => (\A j, k \in DOMAIN subscriptions' :
                    (/\ subscriptions'[j].oid = webhook[h].sub
                     /\ subscriptions'[k].channelId = subscriptions'[j].channelId)
                       => (Includes(subscriptions'[k].postedVideos,
                                    webhook[h].videoId)))]_vars

\* two records follow one channel from two destinations; a video published
\* after both subscribed was delivered to the first only, and the handler is
\* idle again
C35_LostWitness ==
    /\ Len(subscriptions) = 2
    /\ subscriptions[1].channelId = subscriptions[2].channelId
    /\ subscriptions[1].discordChannelId # subscriptions[2].discordChannelId
    /\ webhook[1].pc = "idle"
    /\ early = "none"
    /\ \E m \in BagToSet(sent) :
          /\ m.sub = subscriptions[1].oid
          /\ ~Includes(subscriptions[2].postedVideos, m.videoId)
          /\ \A n \in BagToSet(sent) : n.sub # subscriptions[2].oid

----------------------------------------------------------------------------
(* Feed documents with several entries *)

\* deliveries handled one after another, every one of them succeeding; the hub
\* also delivers documents with two entries and documents with a delete entry
\* next to a normal one
MultiNext ==
    \/ \E c \in Channels, d \in Dests : CmdSub(c, d)
    \/ \E c \in Channels :
          published < MaxVideos /\ Upload(1, Feed(published + 1, c, 2))
    \/ \E v, w \in 1..published, c \in Channels :
          v # w /\ Redeliver(1, Feed2(v, w, c, 2))
    \/ \E v \in 1..published, c \in Channels : Redeliver(1, DeletedAnd(v, c, 2))
    \/ HandlerSteps(1, {"text"}, {"ok"})

SpecMulti == InitVideo /\ [][MultiNext]_vars

\* C36: when a handler returns without having caught an error, every normal
\* entry of its document has been run through the ledger: the record that
\* matches the entry's channel holds the entry's id in its history
C36_EveryEntryProcessed ==
    [][\A h \in DOMAIN webhook :
          (webhook[h].pc # "idle" /\ webhook'[h].pc = "idle" /\ early' # "webhook")
             => (\A n \in DOMAIN webhook[h].body.entries :
                    \A k \in DOMAIN subscriptions' :
                       (/\ subscriptions'[k].channelId =
                              webhook[h].body.entries[n].channelId
                        /\ \A j \in 1..(k - 1) :
                              subscriptions'[j].channelId # subscriptions'[k].channelId)
                          => (Includes(InitPostedVideos(subscriptions'[k]).postedVideos,
                                       webhook[h].body.entries[n].videoId)))]_vars

\* a document with two entries was handled: the first entry's video was
\* delivered, the second one's is neither delivered nor in the history
C36_SecondWitness ==
    /\ webhook[1].pc = "idle"
    /\ early = "none"
    /\ \E k \in DOMAIN subscriptions, m \in BagToSet(sent), w \in 1..published :
          /\ m.sub = subscriptions[k].oid
          /\ w # m.videoId
          /\ Len(subscriptions[k].postedVideos) >= 1
          /\ subscriptions[k].lastPostedVideoId = m.videoId
          /\ ~Includes(subscriptions[k].postedVideos, w)

\* a document with a delete entry and a normal entry was dropped whole: the
\* normal entry's video is unknown to the record that follows its channel
C36_DeletedWitness ==
    /\ webhook[1].pc = "idle"
    /\ early = "deleted"
    /\ response.route = "POST"
    /\ \E k \in DOMAIN subscriptions, w \in 1..published :
          /\ subscriptions[k].hasPostedVideos
          /\ ~Includes(subscriptions[k].postedVideos, w)

----------------------------------------------------------------------------
(* Overlapping calls of getTwitchAccessToken *)

\* loadData(): no token file, or a token saved by an earlier process; two
\* callers (a sweep and a command, or two sweeps)
InitTokenPar ==
    /\ InitVideoSide
    /\ InitStreamSide
    /\ twitchOAuthToken \in {NoToken} \cup
          {[access_token |-> 2, expires_at |-> e] : e \in TokenExpiresIn}
    /\ tokenFile = twitchOAuthToken
    /\ twitchDeviceCode = 0
    /\ twitchDeviceAuthUrl = 0
    /\ grant = <<>>
    /\ now = 0
    /\ sweepTimer = TRUE
    /\ ready = TRUE
    /\ tokenCall = <<IdleCall, IdleCall>>
    /\ tokenLog = <<>>
    /\ pollObs = NoPoll
    /\ exchangeFailed = FALSE
    /\ lastCmd = NoCmd
    /\ vsweep = <<>>
    /\ pollDone = NoPollDone
    /\ early = "none"
    /\ response = NoResponse
    /\ hub = NoHub
    /\ renewAt = 0
    /\ diskFault = NoFault
    /\ CounterIdle
    /\ loadObs = NoLoad

\* calls that may overlap
TokenParNext ==
    \/ \E k \in 1..2 : GetToken(k)
    \/ \E k \in 1..2, e \in {0} \cup TokenExpiresIn : GetTokenExchanged(k, e)
    \/ Tick

SpecTokenPar == InitTokenPar /\ [][TokenParNext]_vars

\* C37: at most one exchange request is under way at any time, and two calls
\* that started on the same stored token and each came back from an exchange
\* with a token returned the same access token
C37_SingleFlight ==
    /\ Cardinality({k \in DOMAIN tokenCall : tokenCall[k].pc = "exchange"}) <= 1
    /\ \A i, j \in DOMAIN tokenLog :
          (/\ tokenLog[i].exchanged
           /\ tokenLog[j].exchanged
           /\ tokenLog[i].ret # 0
           /\ tokenLog[j].ret # 0
           /\ tokenLog[i].startTok = tokenLog[j].startTok)
             => tokenLog[i].ret = tokenLog[j].ret

\* two calls started without a token, each made its own exchange, and they
\* returned different access tokens at the same time of day
C37_DoubleWitness ==
    /\ Len(tokenLog) >= 2
    /\ tokenLog[1].startTok = 0
    /\ tokenLog[2].startTok = 0
    /\ tokenLog[1].exchanged
    /\ tokenLog[2].exchanged
    /\ tokenLog[1].ret # 0
    /\ tokenLog[2].ret # 0
    /\ tokenLog[1].ret # tokenLog[2].ret
    /\ tokenLog[1].at = tokenLog[2].at

\* the stored token is a whole (access token, expiry) pair or none at all
TokenWhole ==
    \/ twitchOAuthToken = NoToken
    \/ twitchOAuthToken.access_token # 0 /\ twitchOAuthToken.expires_at > 0

----------------------------------------------------------------------------
(* Unsubscribing while a delivery is in flight *)

\* the 'sub' and 'unsub' commands next to deliveries handled one after
\* another, every one of them succeeding
UnsubNext ==
    \/ \E c \in Channels, d \in Dests : CmdSub(c, d)
    \/ \E c \in Channels, d \in Dests : CmdUnsub(c, d)
    \/ \E c \in Channels :
          published < MaxVideos /\ Upload(1, Feed(published + 1, c, 2))
    \/ \E v \in 1..published, c \in Channels : Redeliver(1, Feed(v, c, 2))
    \/ HandlerSteps(1, {"text"}, {"ok"})

SpecUnsub == InitVideo /\ [][UnsubNext]_vars

\* C38: a message is delivered only for a record that is in the store when it
\* is sent, and every write of the video file writes the records of the store
C38_NoNotifyAfterUnsub ==
    [][/\ \A h \in DOMAIN webhook :
            (webhook[h].pc = "send" /\ sent' # sent)
               => (\E k \in DOMAIN subscriptions :
                      subscriptions[k].oid = webhook[h].sub)
       /\ (subsFile' # subsFile) => (subsFile' = Snapshot(subscriptions'))]_vars

\* every write of the video file writes the records of the store as it is
SnapshotIsStore ==
    [][(subsFile' # subsFile) => (subsFile' = Snapshot(subscriptions'))]_vars

----------------------------------------------------------------------------
(* The file-backed uninstall counter *)

\* everything of the notification bot, which the counter store never touches
botSide == <<videoSide, streamSide, twitchOAuthToken, twitchDeviceCode, now,
             callSide, exchangeFailed, storeSide, pollSide, exitSide, webSide,
             leaseSide, diskFault, loadObs, files>>

\* a method of the store is called: ensureLoaded finds the map loaded, or
\* finds data === null and starts readData
CounterCall(op, programName) ==
    /\ Len(request) < MaxRequests
    /\ request' = Append(request,
                         [op |-> op,
                          key |-> NormalizedName(programName),
                          pc |-> IF data.loaded THEN "loaded" ELSE "reading",
                          buf |-> EmptyMap])
    /\ UNCHANGED <<data, dataFile, counted, botSide>>

\* readData: fs.readFile answers with the file as it is now; a missing or
\* unparsable file gives an empty map
ReadData(r) ==
    /\ request[r].pc = "reading"
    /\ request' = [request EXCEPT ![r].pc = "assign",
                                  ![r].buf = IF dataFile.ok THEN dataFile.map
                                             ELSE EmptyMap]
    /\ UNCHANGED <<data, dataFile, counted, botSide>>

\* ensureLoaded resumes: this.data = (the map readData returned)
EnsureLoaded(r) ==
    /\ request[r].pc = "assign"
    /\ data' = [loaded |-> TRUE, map |-> request[r].buf]
    /\ request' = [request EXCEPT ![r].pc = "loaded"]
    /\ UNCHANGED <<dataFile, counted, botSide>>

\* the map after the synchronous part of a method
Bumped(map, key) ==
    [map EXCEPT ![key] = IF map[key] > 0 THEN map[key] + 1 ELSE 1]

Applied(op, map, key) ==
    CASE op = "increment" -> Bumped(map, key)
      [] op = "reset" -> EmptyMap
      [] op = "delete" -> [map EXCEPT ![key] = 0]

\* a method resumes after ensureLoaded, changes this.data and calls
\* writeData, which serialises the map at once and starts fs.writeFile;
\* deleteRequest writes only when it deleted something
Mutate(r) ==
    LET op == request[r].op
        key == request[r].key
        after == Applied(op, data.map, key)
        writes == op # "delete" \/ data.map[key] > 0
    IN  /\ request[r].pc = "loaded"
        /\ data' = [data EXCEPT !.map = after]
        /\ request' = [request EXCEPT ![r].pc = IF writes THEN "writing" ELSE "done",
                                      ![r].buf = after]
        /\ counted' = CASE op = "increment" -> [counted EXCEPT ![key] = @ + 1]
                         [] op = "reset" -> EmptyMap
                         [] op = "delete" -> [counted EXCEPT ![key] = 0]
        /\ UNCHANGED <<dataFile, botSide>>

\* fs.writeFile of one call settles; while another write of the same file is
\* under way the file may also be left as a mix of the two texts
WriteData(r, mixed) ==
    /\ request[r].pc = "writing"
    /\ mixed => \E q \in DOMAIN request : q # r /\ request[q].pc = "writing"
    /\ dataFile' = IF mixed THEN NoDataFile
                   ELSE [ok |-> TRUE, map |-> request[r].buf]
    /\ request' = [request EXCEPT ![r].pc = "done"]
    /\ UNCHANGED <<data, counted, botSide>>

CounterOps == {"increment", "reset", "delete"}

\* every call has returned
Quiescent == \A r \in DOMAIN request : request[r].pc = "done"

CounterSteps ==
    \/ \E r \in DOMAIN request : ReadData(r)
    \/ \E r \in DOMAIN request : EnsureLoaded(r)
    \/ \E r \in DOMAIN request : Mutate(r)
    \/ \E r \in DOMAIN request, mixed \in BOOLEAN : WriteData(r, mixed)

\* requests arriving at any time
CounterNext ==
    \/ \E op \in CounterOps, n \in ProgramNames : CounterCall(op, n)
    \/ CounterSteps

\* requests arriving one after another, each after the one before returned
CounterSeqNext ==
    \/ \E op \in CounterOps, n \in ProgramNames : Quiescent /\ CounterCall(op, n)
    \/ CounterSteps

InitCounter == InitVideoSide /\ InitStreamSide /\ InitTokenSide

SpecCounter == InitCounter /\ [][CounterNext]_vars
SpecCounterSeq == InitCounter /\ [][CounterSeqNext]_vars

\* the count of a key in the data file
FileCount(key) == IF dataFile.ok THEN dataFile.map[key] ELSE 0

\* C39: once every call has returned, the count stored for a key, in memory
\* and in the data file, is the number of incrementUninstallCount calls made
\* for names of that key since the key was last reset or deleted
C39_NoLostIncrement ==
    Quiescent => \A key \in CounterKeys :
                    /\ data.map[key] = counted[key]
                    /\ FileCount(key) = counted[key]

\* no call other than incrementUninstallCount was made, and all have returned
OnlyIncrements ==
    /\ request # <<>>
    /\ Quiescent
    /\ \A r \in DOMAIN request : request[r].op = "increment"

\* two increments of one key have returned and the map holds a count of 1
C39_LostWitness ==
    /\ OnlyIncrements
    /\ \E key \in CounterKeys : counted[key] = 2 /\ data.map[key] = 1

\* the map holds every increment and the file is one behind
C39_FileBehindWitness ==
    /\ OnlyIncrements
    /\ \E key \in CounterKeys :
          /\ counted[key] = 2
          /\ data.map[key] = 2
          /\ FileCount(key) = 1

\* calls of differently written names were counted under one key
C39_SeqWitness ==
    /\ OnlyIncrements
    /\ \E i, j \in DOMAIN request :
          /\ request[i].key = request[j].key
          /\ i # j
    /\ \E key \in CounterKeys : counted[key] = 3 /\ FileCount(key) = 3

=============================================================================
